---- MODULE Spec2Model ----
(***************************************************************************)
(* Verification model of the convertible-bond rotation trader              *)
(* (kk99668/qmt-cb-rotation).                                              *)
(*                                                                         *)
(* The module holds several specifications over one set of variables, one  *)
(* per component of the program:                                           *)
(*   SpecLedger     Database.add_position_record / update_position_record  *)
(*   SpecEnsure     QMTService.health_check / ensure_connected             *)
(*   SpecReconnect  Api._qmt_health_check_callback / Api._reconnect_qmt    *)
(*   SpecStop       the stop-profit / stop-loss decision                   *)
(*   SpecDiff       the to_sell / to_buy computation of execute_rebalance  *)
(*   Spec           AutoTradeService: rebalance, risk check, refill        *)
(*   SpecQueue      risk check and refill over two dates, stored ledger    *)
(*   SpecPick       the buy list of execute_scheduled_refill               *)
(*   SpecScheduler  SchedulerService: jobs, fires and their wrappers       *)
(*   SpecTrade      single calls of _sell_bond, _check_single_position     *)
(*                  and _buy_bond                                          *)
(*   SpecSession    Api.start_trading / stop_trading and the market-data   *)
(*                  subscriptions of QMTService                            *)
(*   SpecGate       the conditions a rebalance and a risk check test       *)
(*                  before they act                                        *)
(*   SpecThreads    a rebalance job, a risk-check job and a manually       *)
(*                  triggered rebalance running at the same time           *)
(*   SpecTx         two ledger calls at the same time, SELECT and commit   *)
(*                  as separate steps                                      *)
(*   SpecHealth     the health-check job over an unbounded run             *)
(*   SpecHealthLive SpecHealth with the job firing again and again         *)
(*   SpecBatch      a risk check writing its sold items to the refill      *)
(*                  queue one commit at a time                             *)
(*   SpecLoop       the per-instrument loops of a cycle and the failures   *)
(*                  an instrument can meet                                 *)
(*   SpecCalendar   the trading-day check of the scheduler wrappers and    *)
(*                  its cache                                              *)
(*   SpecJobs       SchedulerService.add_*_job / remove_job over the job   *)
(*                  store                                                  *)
(*   SpecAmount     the buy amount a rebalance and a refill hand to        *)
(*                  _buy_bond                                              *)
(*   SpecBuyPrice   _buy_bond and the weighted average price of the ledger *)
(*   SpecDouble     the rebalance and the refill of the same minute, and   *)
(*                  the exits of a refill before its buy loop              *)
(*   SpecRace       stop_trading against a health-check callback in flight *)
(* A specification leaves the variables of the other components at their   *)
(* initial values.                                                         *)
(***************************************************************************)
EXTENDS Integers, Sequences, FiniteSets, TLC

VARIABLES
    \* ---- Database (src/src/models/database.py)
    position_records,   \* table position_records: stock_code -> [volume]
    db_call,            \* the last Database call made and the row it found
    \* ---- QMTService.ensure_connected (src/src/services/qmt_service.py)
    qmt,                \* QMTService: [connected, trader]
    ec,                 \* the running ensure_connected call
    \* ---- AutoTradeService, pure computations
    sp,                 \* one stop-profit / stop-loss evaluation
    df,                 \* one to_sell / to_buy computation
    \* ---- Api: health check and reconnection (src/src/api/api.py)
    api,                \* [running, qmt_reconnect_count, the two timestamps]
    clock,              \* number of health-check ticks so far
    rcg,                \* what the reconnection procedure has done so far
    \* ---- AutoTradeService cycles (src/src/services/auto_trade_service.py)
    cfg,                \* strategy_config / app_config as the cycles read them
    now,                \* local time: [date, tod]
    refill_queue,       \* table refill_queue, rows in created_at order
    cy,                 \* the running rebalance or risk-check cycle
    rf,                 \* the running scheduled-refill cycle
    gh,                 \* what the last cycle step did: session operation,
                        \* order, queue access
    \* ---- single calls of one routine, inputs and result
    pk,                 \* one selection of the refill buy list
    tr,                 \* one _sell_bond / _check_single_position / _buy_bond
    gt,                 \* the starts of execute_rebalance and of the risk
                        \* check made so far, with the conditions each met;
                        \* in SpecLoop the instruments a cycle has processed
    \* ---- callers that run at the same time
    th,                 \* worker threads running a cycle each, the broker
                        \* account and the sell orders placed
    tx,                 \* ledger table rows and the Database calls in flight
    bq,                 \* one _add_to_refill_queue batch and a reader
    hl,                 \* the session's asset query and what the
                        \* health-check job did last
    \* ---- SchedulerService (src/src/services/scheduler_service.py)
    sch,                \* registered jobs and what their fires did
    \* ---- QMTService.connect / disconnect and Api.stop_trading
    dc                  \* the market-data subscriptions of the session

ledgerVars == <<position_records, db_call>>
ensureVars == <<qmt, ec>>
pureVars == <<sp, df>>
reconnVars == <<api, clock, rcg>>
tradeVars == <<cfg, now, refill_queue, cy, rf, gh>>
concVars == <<th, tx, bq, hl>>
callVars == <<pk, tr, gt, concVars>>
schedVars == <<sch, dc>>
vars == <<position_records, db_call, qmt, ec, sp, df, api, clock, rcg,
          cfg, now, refill_queue, cy, rf, gh, pk, tr, gt, th, tx, bq, hl,
          sch, dc>>

\* What each component leaves alone.
notLedger == <<ensureVars, pureVars, reconnVars, tradeVars, callVars,
               schedVars>>
notQmt == <<ledgerVars, ec, pureVars, reconnVars, tradeVars, callVars,
            schedVars>>
notEc == <<ledgerVars, qmt, pureVars, reconnVars, tradeVars, callVars,
           schedVars>>
notSp == <<ledgerVars, ensureVars, df, reconnVars, tradeVars, callVars,
           schedVars>>
notDf == <<ledgerVars, ensureVars, sp, reconnVars, tradeVars, callVars,
           schedVars>>
notReconn == <<ledgerVars, ec, pureVars, tradeVars, callVars, schedVars>>
notSession == <<ledgerVars, ec, pureVars, tradeVars, callVars, sch>>
notTrade == <<db_call, ec, pureVars, reconnVars, callVars, schedVars>>
notPk == <<ledgerVars, ensureVars, pureVars, reconnVars, tradeVars, tr, gt,
           concVars, schedVars>>
notTr == <<ledgerVars, ensureVars, pureVars, reconnVars, tradeVars, pk, gt,
           concVars, schedVars>>
notGt == <<db_call, ec, pureVars, reconnVars, pk, tr, concVars, schedVars>>
notSch == <<ledgerVars, ensureVars, pureVars, reconnVars, tradeVars, callVars,
            dc>>

(***************************************************************************)
(* Bounds of the model.                                                    *)
(***************************************************************************)
NCodes == 2
MaxVolume == 40
MaxRetriesBound == 5
NDiffCodes == 5
MaxPrice == 12
MaxRatio == 3
MaxTicks == 8
MaxDays == 2
MaxQueue == 2
MaxHeld == 20
\* Ratios are the fractions k / RatioDen, k in 0..MaxRatio.
RatioDen == 10

\* The 10-unit lot of a convertible bond (auto_trade_service.py:496).
LotSize == 10

Codes == 1..NCodes

Min(a, b) == IF a <= b THEN a ELSE b
Max(a, b) == IF a >= b THEN a ELSE b

\* Volumes a buy order can have: whole lots, at least one lot.
BuyVolumes == {v \in 1..MaxVolume : v % LotSize = 0}
\* Volumes a sell can report: min(record.volume, can_use_volume) > 0.
SoldVolumes == {v \in 1..(MaxVolume + LotSize) : v % LotSize = 0}

(***************************************************************************)
(* Database: the position ledger.                                          *)
(* A ledger is a function from the stock codes that have a row to the row. *)
(***************************************************************************)
NoCall == [op |-> "none", stock_code |-> 0, volume |-> 0, before |-> -1]

\* Database.add_position_record: weighted-average upsert of a buy.
add_position_record(records, stock_code, volume) ==
    IF stock_code \in DOMAIN records
    THEN [records EXCEPT ![stock_code].volume = records[stock_code].volume + volume]
    ELSE [c \in DOMAIN records \cup {stock_code} |->
            IF c = stock_code THEN [volume |-> volume] ELSE records[c]]

\* A decrement that forgets to delete the emptied row.
update_position_record_keep_row(records, stock_code, sold_volume) ==
    IF stock_code \in DOMAIN records
    THEN [records EXCEPT ![stock_code].volume =
              Max(0, records[stock_code].volume - sold_volume)]
    ELSE records

\* Database.update_position_record: decrement of a sell, clamped at 0; the
\* row is deleted when its volume reaches 0.
update_position_record(records, stock_code, sold_volume) ==
    IF stock_code \in DOMAIN records
    THEN LET v == Max(0, records[stock_code].volume - sold_volume)
         IN  IF v <= 0
             THEN [c \in DOMAIN records \ {stock_code} |-> records[c]]
             ELSE [records EXCEPT ![stock_code].volume = v]
    ELSE records

VolumeOf(records, stock_code) ==
    IF stock_code \in DOMAIN records THEN records[stock_code].volume ELSE 0

EmptyLedger == [c \in {} |-> [volume |-> 0]]

\* QMTService.__init__: no trader, not connected.
QmtInit == [connected |-> FALSE, trader |-> FALSE]

\* No ensure_connected call has been made.
EnsureIdle == [pc |-> "idle", max_retries |-> 0, attempt |-> 0, probes |-> 0,
               sleeps |-> 0, result |-> FALSE, failed |-> 0]

\* No stop evaluation and no diff has been made.
StopIdle == [ensure_ok |-> FALSE, last_price |-> 0, suspended |-> FALSE,
             last_close |-> 0, profit_ratio |-> 0, loss_ratio |-> 0,
             decision |-> "pending"]
DiffIdle == [target_codes |-> {}, current_codes |-> {}, project_codes |-> {},
             to_sell_codes |-> {}, to_buy |-> {}, pc |-> "start"]

\* Api.__init__: not running, no reconnect counted, no timestamps.
None == -1
ApiInit == [running |-> FALSE, qmt_reconnect_count |-> 0,
            qmt_last_health_check_time |-> None,
            qmt_last_reconnect_time |-> None]
\* Nothing done yet by the reconnection procedure: reconnect attempts
\* (disconnect + connect), how many of them failed, terminal notifications,
\* the time of the latest attempt and whether trading has been stopped
\* since.
RcgInit == [attempts |-> 0, fails |-> 0, terminal |-> 0,
            last_attempt |-> None, stopped |-> FALSE]

\* The refill cut-off "14:50" as a time of day in seconds (14:50:00), and the
\* times of day the model tells apart: before it, exactly it, past it.
RefillDeadline == 53400
TimesOfDay == {RefillDeadline - 1, RefillDeadline, RefillDeadline + 1}
Dates == 1..MaxDays
NowInit == [date |-> 1, tod |-> RefillDeadline - 1]

\* AutoTradeService.__init__: no app_config, no strategy_config.
CfgNone == [strategy |-> FALSE, buy_amount_type |-> "none", fixed_amount |-> 0,
            stop_profit_ratio |-> 0, stop_loss_ratio |-> 0]

\* An amount of money is the fraction num / den (den is a bond count).
NoAmount == [num |-> 0, den |-> 1]
\* Account holdings: stock_code -> can_use_volume, for the codes held.
NoPositions == [c \in {} |-> 0]

\* No cycle is running.
CycleIdle == [kind |-> "none", pc |-> "idle", project_records |-> EmptyLedger,
              positions |-> NoPositions, to_sell_codes |-> {}, to_buy |-> {},
              buy_amount |-> NoAmount, sold_items |-> <<>>, ensured |-> FALSE,
              foreign_held |-> FALSE]
RefillIdle == [pc |-> "idle", refill_queue |-> <<>>, to_buy |-> <<>>,
               buy_amount |-> NoAmount, ensured |-> FALSE]

\* The last step made no session operation, placed no order and did not
\* touch the refill queue.
NoOp == [name |-> "none", by |-> "none", ensured |-> FALSE]
NoOrder == [side |-> "none", by |-> "none", volume |-> 0,
            record_volume |-> None, can_use_volume |-> None,
            foreign_held |-> FALSE]
NoQueueOp == [name |-> "none", date |-> 0, tod |-> 0, dates |-> {}]
GhostInit == [op |-> NoOp, order |-> NoOrder, queue |-> NoQueueOp]

\* No selection of a refill buy list has been made.
PickIdle == [pc |-> "idle", target_bonds |-> <<>>, current_codes |-> {},
             refill_queue |-> <<>>, to_buy |-> <<>>]

\* No per-instrument routine has been called: its result places no order.
NoResult == [position_records |-> EmptyLedger, order |-> NoOrder, op |-> NoOp,
             ensured |-> FALSE, outcome |-> "none", sold |-> <<>>,
             notice |-> "none"]
TradeIdle == [pc |-> "idle", routine |-> "none", stock_code |-> 0,
              position_records |-> EmptyLedger, positions |-> NoPositions,
              amount |-> NoAmount, ensure_ok |-> FALSE, price |-> 0,
              last_close |-> 0, suspended |-> FALSE, order_id |-> 0,
              result |-> NoResult]

\* No cycle start has been made.
GateIdle == <<>>

\* The callers that can run a cycle at the same time: the scheduler's
\* rebalance job, its risk-check job, and the worker thread trigger_rebalance
\* starts.
Workers == {"job_rebalance", "job_risk", "manual"}
\* No worker runs; the account holds nothing and no sell order was placed.
ThreadsInit == [w |-> [x \in Workers |-> CycleIdle],
                runs |-> [x \in Workers |-> 0],
                account |-> NoPositions,
                sold |-> [c \in Codes |-> 0],
                base |-> EmptyLedger]
\* An empty position_records table and no Database call in flight.
TxInit == [rows |-> {}, next_id |-> 1, base |-> EmptyLedger,
           calls |-> <<>>]
\* No batch is being written to the refill queue.
BatchInit == [pc |-> "idle", pending |-> <<>>, sold_items |-> <<>>,
              written |-> 0, read |-> FALSE, seen |-> <<>>]
\* The asset query answers; the health-check job has not run.
HealthInit == [degraded |-> FALSE, attempted |-> FALSE, fires |-> 0]

\* SchedulerService.__init__: no job registered, nothing fired.
NoFire == [job |-> "none", trading_day |-> FALSE, in_window |-> FALSE,
           raises |-> FALSE, outcome |-> "none"]
SchedulerInit == [jobs |-> [j \in {} |-> "none"], raised |-> {},
                  fire |-> NoFire]

\* QMTService.__init__: no whole-market subscription, no per-instrument
\* subscription; standing is the set of market-data subscriptions the data
\* service holds, next_sub_id the number it hands out next, last the Api
\* operation that ran last.
SessionInit == [whole_quote_sub_id |-> None, stock_sub_ids |-> {},
                standing |-> {}, next_sub_id |-> 1, last |-> "none"]

InitLedger ==
    /\ position_records = EmptyLedger
    /\ db_call = NoCall
    /\ qmt = QmtInit
    /\ ec = EnsureIdle
    /\ sp = StopIdle
    /\ df = DiffIdle
    /\ api = ApiInit
    /\ clock = 0
    /\ rcg = RcgInit
    /\ cfg = CfgNone
    /\ now = NowInit
    /\ refill_queue = <<>>
    /\ cy = CycleIdle
    /\ rf = RefillIdle
    /\ gh = GhostInit
    /\ pk = PickIdle
    /\ tr = TradeIdle
    /\ gt = GateIdle
    /\ th = ThreadsInit
    /\ tx = TxInit
    /\ bq = BatchInit
    /\ hl = HealthInit
    /\ sch = SchedulerInit
    /\ dc = SessionInit

\* A buy is recorded (the caller is _buy_bond, after an accepted order).
AddPositionRecord ==
    \E c \in Codes, v \in BuyVolumes :
        /\ VolumeOf(position_records, c) + v <= MaxVolume
        /\ position_records' = add_position_record(position_records, c, v)
        /\ db_call' = [op |-> "add", stock_code |-> c, volume |-> v,
                       before |-> VolumeOf(position_records, c)]
        /\ UNCHANGED notLedger

\* A sell is recorded (the callers are _sell_bond and _execute_stop_order).
UpdatePositionRecord ==
    \E c \in Codes, s \in SoldVolumes :
        /\ position_records' = update_position_record(position_records, c, s)
        /\ db_call' = [op |-> "update", stock_code |-> c, volume |-> s,
                       before |-> IF c \in DOMAIN position_records
                                  THEN position_records[c].volume ELSE -1]
        /\ UNCHANGED notLedger

NextLedger == AddPositionRecord \/ UpdatePositionRecord

SpecLedger == InitLedger /\ [][NextLedger]_vars

\* C3: every stored ledger row has volume > 0; a decrement by at least the
\* row's volume leaves no row for the code (clamped to 0 and deleted), and a
\* smaller decrement leaves exactly the difference.
C3_LedgerVolumePositive ==
    /\ \A c \in DOMAIN position_records : position_records[c].volume > 0
    /\ (db_call.op = "update" /\ db_call.before >= 0) =>
          IF db_call.volume >= db_call.before
          THEN db_call.stock_code \notin DOMAIN position_records
          ELSE /\ db_call.stock_code \in DOMAIN position_records
               /\ position_records[db_call.stock_code].volume
                      = db_call.before - db_call.volume

\* C3 witness: a sell larger than the stored volume has just been recorded
\* while another code still has a row.
C3_Witness ==
    /\ db_call.op = "update"
    /\ db_call.before > 0
    /\ db_call.volume > db_call.before
    /\ db_call.stock_code \notin DOMAIN position_records
    /\ DOMAIN position_records # {}

(***************************************************************************)
(* QMTService: health check and ensure_connected.                          *)
(***************************************************************************)
\* What the round trip trader.query_stock_asset can do.
AssetReplies == {"asset", "none", "raise"}
\* The two replies a caller of health_check can tell apart.
ProbeReplies == {"asset", "none"}

\* QMTService.is_connected
is_connected(q) == q.connected /\ q.trader

\* QMTService.health_check_simple: the in-memory flag only.
health_check_simple(q) == is_connected(q)

\* QMTService.health_check: the flag, then a real asset query.
health_check(q, reply) == is_connected(q) /\ reply = "asset"

\* What QMTService.connect can do: succeed, fail before the trader object is
\* created (module load), or fail after it (connect or subscribe refused).
ConnectOutcomes == {"ok", "init_fail", "connect_fail"}

\* QMTService.connect
qmt_connect(q, outcome) ==
    CASE outcome = "ok" -> [connected |-> TRUE, trader |-> TRUE]
      [] outcome = "init_fail" -> [q EXCEPT !.connected = FALSE]
      [] OTHER -> [connected |-> FALSE, trader |-> TRUE]

\* QMTService.disconnect: acts only when a trader object exists.
qmt_disconnect(q) ==
    IF q.trader THEN [connected |-> FALSE, trader |-> FALSE] ELSE q

\* A loop that also sleeps after its last probe.
sleep_after_probe_always(attempt, max_retries) == attempt < max_retries

\* ensure_connected: a sleep follows a failed probe unless it was the last.
sleep_after_probe(attempt, max_retries) == attempt < max_retries - 1

\* The retry budgets the callers pass (1 and 2) and the bound's others.
RetryBudgets == 0..MaxRetriesBound

InitEnsure ==
    /\ position_records = EmptyLedger
    /\ db_call = NoCall
    /\ qmt = QmtInit
    /\ ec = EnsureIdle
    /\ sp = StopIdle
    /\ df = DiffIdle
    /\ api = ApiInit
    /\ clock = 0
    /\ rcg = RcgInit
    /\ cfg = CfgNone
    /\ now = NowInit
    /\ refill_queue = <<>>
    /\ cy = CycleIdle
    /\ rf = RefillIdle
    /\ gh = GhostInit
    /\ pk = PickIdle
    /\ tr = TradeIdle
    /\ gt = GateIdle
    /\ th = ThreadsInit
    /\ tx = TxInit
    /\ bq = BatchInit
    /\ hl = HealthInit
    /\ sch = SchedulerInit
    /\ dc = SessionInit

\* ensure_connected(max_retries, retry_interval) is entered.
EnsureCall ==
    \E n \in RetryBudgets :
        /\ ec.pc \in {"idle", "done"}
        /\ ec' = [pc |-> IF n > 0 THEN "probe" ELSE "done", max_retries |-> n,
                  attempt |-> 0, probes |-> 0, sleeps |-> 0, result |-> FALSE,
                  failed |-> 0]
        /\ UNCHANGED notEc

\* One iteration of the loop: the probe and what follows it.
EnsureProbe ==
    \E reply \in AssetReplies :
        /\ ec.pc = "probe"
        /\ IF health_check(qmt, reply)
           THEN ec' = [ec EXCEPT !.pc = "done", !.result = TRUE,
                                 !.probes = @ + 1]
           ELSE IF sleep_after_probe(ec.attempt, ec.max_retries)
           THEN ec' = [ec EXCEPT !.pc = "sleep", !.probes = @ + 1,
                                 !.failed = @ + 1]
           ELSE ec' = [ec EXCEPT !.pc = IF ec.attempt + 1 < ec.max_retries
                                        THEN "probe" ELSE "done",
                                 !.attempt = @ + 1, !.probes = @ + 1,
                                 !.failed = @ + 1, !.result = FALSE]
        /\ UNCHANGED notEc

\* time.sleep(retry_interval), then the next iteration.
EnsureSleep ==
    /\ ec.pc = "sleep"
    /\ ec' = [ec EXCEPT !.pc = IF ec.attempt + 1 < ec.max_retries
                               THEN "probe" ELSE "done",
                        !.attempt = @ + 1, !.sleeps = @ + 1]
    /\ UNCHANGED notEc

\* TraderCallback.on_disconnected: the session drops the flag.
OnDisconnected ==
    /\ qmt.connected
    /\ qmt' = [qmt EXCEPT !.connected = FALSE]
    /\ UNCHANGED notQmt

\* QMTService.connect is called (start of trading, reconnection).
Connect ==
    \E outcome \in ConnectOutcomes :
        /\ qmt' = qmt_connect(qmt, outcome)
        /\ UNCHANGED notQmt

\* QMTService.disconnect is called (stop of trading, reconnection).
Disconnect ==
    /\ qmt' = qmt_disconnect(qmt)
    /\ UNCHANGED notQmt

NextEnsure ==
    \/ EnsureCall
    \/ EnsureProbe
    \/ EnsureSleep
    \/ OnDisconnected
    \/ Connect
    \/ Disconnect

SpecEnsure == InitEnsure /\ [][NextEnsure]_vars

\* C5: a finished ensure_connected(n), n >= 1, whose probes all failed made
\* exactly n probes and n-1 sleeps and returned false; a probe that succeeds
\* ends the call at once with true, one sleep before each later probe only.
C5_EnsureConnectedCounts ==
    /\ (ec.pc = "done" /\ ec.max_retries >= 1 /\ ec.failed = ec.probes) =>
           /\ ec.probes = ec.max_retries
           /\ ec.sleeps = ec.max_retries - 1
           /\ ec.result = FALSE
    /\ (ec.failed < ec.probes) =>
           /\ ec.pc = "done"
           /\ ec.result = TRUE
           /\ ec.probes = ec.failed + 1
           /\ ec.probes <= ec.max_retries
           /\ ec.sleeps = ec.failed
    /\ (ec.pc = "done" /\ ec.max_retries = 2 /\ ec.failed = 2) =>
           (ec.probes = 2 /\ ec.sleeps = 1 /\ ~ec.result)

\* C5 witness: ensure_connected(2) has returned false after two failed probes.
C5_Witness ==
    /\ ec.pc = "done"
    /\ ec.max_retries = 2
    /\ ec.failed = 2
    /\ ec.probes = 2
    /\ ec.sleeps = 1
    /\ ~ec.result

(***************************************************************************)
(* The stop-profit / stop-loss decision of _check_single_position.         *)
(* Prices are whole price units; a ratio is k / RatioDen.  With            *)
(* last_close > 0, pct >= k/RatioDen is (last - close) * RatioDen >= k *    *)
(* close, so the comparisons are made exactly, without a division.         *)
(***************************************************************************)
Prices == 0..MaxPrice
Ratios == 0..MaxRatio

\* pct_change >= profit_ratio
pct_ge(last_price, last_close, k) ==
    (last_price - last_close) * RatioDen >= k * last_close

\* pct_change <= -loss_ratio
pct_le_neg(last_price, last_close, k) ==
    (last_price - last_close) * RatioDen <= (0 - k) * last_close

\* A decision that tests the stop-loss branch first.
stop_decision_loss_first(ensure_ok, last_price, suspended, last_close, profit_ratio, loss_ratio) ==
    IF ~ensure_ok THEN "skip"
    ELSE IF last_price <= 0 THEN "skip"
    ELSE IF suspended THEN "suspended"
    ELSE IF last_close <= 0 THEN "skip"
    ELSE IF pct_le_neg(last_price, last_close, loss_ratio) THEN "stop_loss"
    ELSE IF pct_ge(last_price, last_close, profit_ratio) THEN "stop_profit"
    ELSE "none"

\* _check_single_position up to the order: a failed connection check, a last
\* price <= 0 or a previous close <= 0 skip the position, a suspended
\* instrument is only notified; then the stop-profit test comes first and the
\* stop-loss test is its elif.
stop_decision(ensure_ok, last_price, suspended, last_close, profit_ratio, loss_ratio) ==
    IF ~ensure_ok THEN "skip"
    ELSE IF last_price <= 0 THEN "skip"
    ELSE IF suspended THEN "suspended"
    ELSE IF last_close <= 0 THEN "skip"
    ELSE IF pct_ge(last_price, last_close, profit_ratio) THEN "stop_profit"
    ELSE IF pct_le_neg(last_price, last_close, loss_ratio) THEN "stop_loss"
    ELSE "none"

InitStop ==
    /\ position_records = EmptyLedger
    /\ db_call = NoCall
    /\ qmt = QmtInit
    /\ ec = EnsureIdle
    /\ sp \in [ensure_ok : BOOLEAN, last_price : Prices, suspended : BOOLEAN,
                last_close : Prices, profit_ratio : Ratios,
                loss_ratio : Ratios, decision : {"pending"}]
    /\ df = DiffIdle
    /\ api = ApiInit
    /\ clock = 0
    /\ rcg = RcgInit
    /\ cfg = CfgNone
    /\ now = NowInit
    /\ refill_queue = <<>>
    /\ cy = CycleIdle
    /\ rf = RefillIdle
    /\ gh = GhostInit
    /\ pk = PickIdle
    /\ tr = TradeIdle
    /\ gt = GateIdle
    /\ th = ThreadsInit
    /\ tx = TxInit
    /\ bq = BatchInit
    /\ hl = HealthInit
    /\ sch = SchedulerInit
    /\ dc = SessionInit

\* The position is evaluated against the two ratios.
StopCheck ==
    /\ sp.decision = "pending"
    /\ sp' = [sp EXCEPT !.decision =
                  stop_decision(sp.ensure_ok, sp.last_price, sp.suspended,
                                sp.last_close, sp.profit_ratio,
                                sp.loss_ratio)]
    /\ UNCHANGED notSp

NextStop == StopCheck

SpecStop == InitStop /\ [][NextStop]_vars

\* The two trigger conditions on exact fractions: with close > 0,
\* (last - close)/close >= p/RatioDen and (last - close)/close <= -l/RatioDen.
ProfitCond(r) ==
    (r.last_price - r.last_close) * RatioDen >= r.profit_ratio * r.last_close
LossCond(r) ==
    (r.last_close - r.last_price) * RatioDen >= r.loss_ratio * r.last_close

\* C10: for a position that reaches the comparison (connection check passed,
\* not suspended) with last price > 0 and previous close > 0, stop-profit
\* triggers iff pct >= profit ratio, stop-loss iff pct <= -loss ratio and stop-profit did
\* not trigger; with both ratios > 0 the conditions exclude each other; when
\* both hold (both ratios 0, pct = 0) the stop-profit branch wins.
C10_StopDecision ==
    (sp.decision # "pending" /\ sp.ensure_ok /\ ~sp.suspended
        /\ sp.last_price > 0 /\ sp.last_close > 0) =>
        /\ sp.decision = "stop_profit" <=> ProfitCond(sp)
        /\ sp.decision = "stop_loss" <=> (LossCond(sp) /\ ~ProfitCond(sp))
        /\ sp.decision \in {"stop_profit", "stop_loss", "none"}
        /\ (sp.profit_ratio > 0 /\ sp.loss_ratio > 0) =>
               ~(ProfitCond(sp) /\ LossCond(sp))
        /\ (sp.profit_ratio = 0 /\ sp.loss_ratio = 0 /\ ProfitCond(sp)
                /\ LossCond(sp)) => sp.decision = "stop_profit"

\* C10 witnesses: the boundary pct = profit ratio (11 against 10 at 1/10)
\* has triggered stop-profit.
C10_Witness ==
    /\ sp.decision = "stop_profit"
    /\ sp.last_close = 10
    /\ sp.last_price = 11
    /\ sp.profit_ratio * 10 = RatioDen
    /\ sp.loss_ratio > 0

(***************************************************************************)
(* The to_sell / to_buy computation of execute_rebalance.                  *)
(***************************************************************************)
DiffCodes == 1..NDiffCodes

\* A sell list that ignores the project's own records.
to_sell_all_held(project_codes, current_codes, target_codes) ==
    current_codes \ target_codes

\* A sell list that takes every code, recorded or held, outside the target.
to_sell_recorded_or_held(project_codes, current_codes, target_codes) ==
    (project_codes \cup current_codes) \ target_codes

\* to_sell_codes = set(project_records.keys()) & (current_codes - target_codes)
to_sell_codes(project_codes, current_codes, target_codes) ==
    project_codes \cap (current_codes \ target_codes)

\* to_buy = target_codes - current_codes
to_buy(target_codes, current_codes) == target_codes \ current_codes

InitDiff ==
    /\ position_records = EmptyLedger
    /\ db_call = NoCall
    /\ qmt = QmtInit
    /\ ec = EnsureIdle
    /\ sp = StopIdle
    /\ df \in [target_codes : SUBSET DiffCodes, current_codes : SUBSET DiffCodes,
                project_codes : SUBSET DiffCodes, to_sell_codes : {{}},
                to_buy : {{}}, pc : {"start"}]
    /\ api = ApiInit
    /\ clock = 0
    /\ rcg = RcgInit
    /\ cfg = CfgNone
    /\ now = NowInit
    /\ refill_queue = <<>>
    /\ cy = CycleIdle
    /\ rf = RefillIdle
    /\ gh = GhostInit
    /\ pk = PickIdle
    /\ tr = TradeIdle
    /\ gt = GateIdle
    /\ th = ThreadsInit
    /\ tx = TxInit
    /\ bq = BatchInit
    /\ hl = HealthInit
    /\ sch = SchedulerInit
    /\ dc = SessionInit

\* An empty target list ends the rebalance before anything is computed.
DiffEmptyTarget ==
    /\ df.pc = "start"
    /\ df.target_codes = {}
    /\ df' = [df EXCEPT !.pc = "aborted"]
    /\ UNCHANGED notDf

\* Step 4 of execute_rebalance.
DiffCompute ==
    /\ df.pc = "start"
    /\ df.target_codes # {}
    /\ df' = [df EXCEPT
                 !.to_sell_codes = to_sell_codes(df.project_codes,
                                        df.current_codes, df.target_codes),
                 !.to_buy = to_buy(df.target_codes, df.current_codes),
                 !.pc = "computed"]
    /\ UNCHANGED notDf

NextDiff == DiffEmptyTarget \/ DiffCompute

SpecDiff == InitDiff /\ [][NextDiff]_vars

\* C9: to_sell is exactly the codes that are in the ledger and held at the
\* broker and not in the target (L /\ (C - T)); to_buy is exactly the target
\* codes not held (T - C), so it never holds a held code; T = {1,2,3},
\* L = {1,4}, C = {1,4,5} gives to_sell = {4}, to_buy = {2,3}.
C9_SellBuySets ==
    df.pc = "computed" =>
        /\ \A c \in DiffCodes :
               /\ c \in df.to_sell_codes <=>
                     (c \in df.project_codes /\ c \in df.current_codes
                        /\ c \notin df.target_codes)
               /\ c \in df.to_buy <=>
                     (c \in df.target_codes /\ c \notin df.current_codes)
        /\ df.to_buy \cap df.current_codes = {}
        /\ df.to_sell_codes \subseteq DiffCodes
        /\ df.to_buy \subseteq DiffCodes
        /\ (df.target_codes = {1, 2, 3} /\ df.project_codes = {1, 4}
               /\ df.current_codes = {1, 4, 5}) =>
              (df.to_sell_codes = {4} /\ df.to_buy = {2, 3})

\* C9 witness: the scenario of the claim has been computed.
C9_Witness ==
    /\ df.pc = "computed"
    /\ df.target_codes = {1, 2, 3}
    /\ df.project_codes = {1, 4}
    /\ df.current_codes = {1, 4, 5}
    /\ df.to_sell_codes = {4}
    /\ df.to_buy = {2, 3}

(***************************************************************************)
(* Api: the health-check callback and the reconnection procedure.          *)
(* A health-check tick is one run of Api._qmt_health_check_callback; ticks *)
(* are HealthInterval seconds apart and a run reads the time of its tick   *)
(* plus a delay of 0..FireDelay seconds.                                   *)
(***************************************************************************)
MaxReconnectAttempts == 3
ReconnectCooldown == 60
HealthInterval == 30
FireDelay == 1

\* A reconnection procedure without the cooldown test.
reconnect_qmt_no_cooldown(a, q, g, t, config_ok, outcome, reply) ==
    IF a.qmt_reconnect_count >= MaxReconnectAttempts
    THEN [api |-> a, qmt |-> q, rcg |-> [g EXCEPT !.terminal = @ + 1]]
    ELSE LET a1 == [a EXCEPT !.qmt_last_reconnect_time = t,
                             !.qmt_reconnect_count = @ + 1]
             q1 == qmt_connect(qmt_disconnect(q), outcome)
         IN  IF ~config_ok
             THEN [api |-> a1, qmt |-> q, rcg |-> g]
             ELSE [api |-> a1, qmt |-> q1,
                   rcg |-> [g EXCEPT !.attempts = @ + 1, !.fails = @ + 1,
                                     !.last_attempt = t,
                                     !.stopped = FALSE]]

\* Api._reconnect_qmt at time t.  config_ok: the stored path and account are
\* set; outcome, reply: what connect and the validating asset query do.
reconnect_qmt(a, q, g, t, config_ok, outcome, reply) ==
    IF a.qmt_reconnect_count >= MaxReconnectAttempts
    THEN [api |-> a, qmt |-> q, rcg |-> [g EXCEPT !.terminal = @ + 1]]
    ELSE IF a.qmt_last_reconnect_time # None
            /\ t - a.qmt_last_reconnect_time < ReconnectCooldown
    THEN [api |-> a, qmt |-> q, rcg |-> g]
    ELSE LET a1 == [a EXCEPT !.qmt_last_reconnect_time = t,
                             !.qmt_reconnect_count = @ + 1]
         IN  IF ~config_ok
             THEN [api |-> a1, qmt |-> q, rcg |-> g]
             ELSE LET q1 == qmt_connect(qmt_disconnect(q), outcome)
                  IN  IF outcome = "ok" /\ is_connected(q1)
                            /\ health_check(q1, reply)
                      THEN [api |-> [a1 EXCEPT !.qmt_reconnect_count = 0],
                            qmt |-> q1,
                            rcg |-> [g EXCEPT !.attempts = @ + 1,
                                              !.last_attempt = t,
                                              !.stopped = FALSE]]
                      ELSE [api |-> a1, qmt |-> q1,
                            rcg |-> [g EXCEPT
                                !.attempts = @ + 1, !.fails = @ + 1,
                                !.last_attempt = t, !.stopped = FALSE,
                                !.terminal =
                                    IF a1.qmt_reconnect_count
                                          >= MaxReconnectAttempts
                                    THEN @ + 1 ELSE @]]

\* Api._qmt_health_check_callback at time t.
qmt_health_check_callback(a, q, g, t, config_ok, outcome, reply) ==
    IF ~a.running THEN [api |-> a, qmt |-> q, rcg |-> g]
    ELSE LET a1 == [a EXCEPT !.qmt_last_health_check_time = t]
         IN  IF ~health_check_simple(q)
             THEN reconnect_qmt(a1, q, g, t, config_ok, outcome, reply)
             ELSE [api |-> [a1 EXCEPT !.qmt_reconnect_count = 0],
                   qmt |-> q, rcg |-> g]

InitReconnect ==
    /\ position_records = EmptyLedger
    /\ db_call = NoCall
    /\ qmt = QmtInit
    /\ ec = EnsureIdle
    /\ sp = StopIdle
    /\ df = DiffIdle
    /\ api = ApiInit
    /\ clock = 0
    /\ rcg = RcgInit
    /\ cfg = CfgNone
    /\ now = NowInit
    /\ refill_queue = <<>>
    /\ cy = CycleIdle
    /\ rf = RefillIdle
    /\ gh = GhostInit
    /\ pk = PickIdle
    /\ tr = TradeIdle
    /\ gt = GateIdle
    /\ th = ThreadsInit
    /\ tx = TxInit
    /\ bq = BatchInit
    /\ hl = HealthInit
    /\ sch = SchedulerInit
    /\ dc = SessionInit

\* Api.start_trading, called while trading is stopped: strategy and
\* configuration are checked, the session is connected, the jobs are added
\* and the reconnect counter is reset.
StartTrading ==
    \E pre_ok \in BOOLEAN, outcome \in ConnectOutcomes :
        /\ ~api.running
        /\ IF ~pre_ok
           THEN UNCHANGED <<qmt, api, rcg>>
           ELSE /\ qmt' = qmt_connect(qmt, outcome)
                /\ IF outcome = "ok"
                   THEN /\ api' = [api EXCEPT !.running = TRUE,
                                              !.qmt_reconnect_count = 0]
                        /\ rcg' = [RcgInit EXCEPT
                                       !.last_attempt = rcg.last_attempt,
                                       !.stopped = rcg.stopped]
                   ELSE UNCHANGED <<api, rcg>>
        /\ UNCHANGED <<clock, notReconn>>

\* Api.stop_trading: the scheduler is stopped, the session disconnected and
\* the reconnect state reset.
StopTrading ==
    /\ qmt' = qmt_disconnect(qmt)
    /\ api' = ApiInit
    /\ rcg' = [RcgInit EXCEPT !.last_attempt = rcg.last_attempt,
                              !.stopped = TRUE]
    /\ UNCHANGED <<clock, notReconn>>

\* One health-check tick: Api._qmt_health_check_callback runs.
QmtHealthCheckCallback ==
    \E d \in 0..FireDelay, config_ok \in BOOLEAN,
       outcome \in ConnectOutcomes, reply \in AssetReplies :
        /\ clock < MaxTicks
        /\ clock' = clock + 1
        /\ LET r == qmt_health_check_callback(api, qmt, rcg,
                         clock' * HealthInterval + d, config_ok, outcome, reply)
           IN  /\ api' = r.api
               /\ qmt' = r.qmt
               /\ rcg' = r.rcg
        /\ UNCHANGED notReconn

\* The session reports a disconnection while trading runs.
SessionDrops ==
    /\ qmt.connected
    /\ qmt' = [qmt EXCEPT !.connected = FALSE]
    /\ UNCHANGED notQmt

NextReconnect ==
    \/ StartTrading
    \/ StopTrading
    \/ QmtHealthCheckCallback
    \/ SessionDrops

SpecReconnect == InitReconnect /\ [][NextReconnect]_vars

\* C4: with max attempts 3 and every reconnect attempt failing, once the
\* third consecutive attempt has failed (the counter stands at the limit) no
\* further attempt is made and the terminal failure notification has been
\* sent exactly once in total, however many health-check fires follow.
C4_TerminalNotifiedOnce ==
    (/\ rcg.fails = rcg.attempts
     /\ rcg.attempts >= MaxReconnectAttempts
     /\ api.qmt_reconnect_count >= MaxReconnectAttempts) =>
        /\ rcg.attempts = MaxReconnectAttempts
        /\ rcg.terminal = 1

\* C25: the reconnect counter goes from a positive value to 0 only in a step
\* that made a reconnect attempt whose validation succeeded, or in a start or
\* stop of trading.
C25_CounterResetOnlyAfterValidation ==
    [][(api.qmt_reconnect_count > 0 /\ api'.qmt_reconnect_count = 0) =>
           \/ rcg'.attempts = rcg.attempts + 1 /\ rcg'.fails = rcg.fails
           \/ ~api.running
           \/ ~api'.running]_vars

\* A step that makes a reconnect attempt (disconnect followed by connect).
ReconnectAttempted == rcg'.attempts = rcg.attempts + 1
\* A health-check run that finds the session down less than the cooldown
\* after the attempt the procedure remembers.
FailureInsideCooldown ==
    /\ clock' = clock + 1
    /\ api.running
    /\ ~health_check_simple(qmt)
    /\ api.qmt_last_reconnect_time # None
    /\ api'.qmt_last_health_check_time - api.qmt_last_reconnect_time
           < ReconnectCooldown

\* C26 as stated: any two reconnect attempts are at least 60 seconds apart.
C26_AnyTwoAttemptsApart ==
    [][(ReconnectAttempted /\ rcg.last_attempt # None) =>
           rcg'.last_attempt - rcg.last_attempt >= ReconnectCooldown]_vars

\* C26 (amended): two reconnect attempts with no stop of trading between
\* them are at least 60 seconds apart, and a health-check failure less than
\* 60 s after the remembered attempt makes no attempt and leaves the failure
\* counter and the last-attempt timestamp unchanged.
C26_AttemptsApartWithinRun ==
    [][/\ (ReconnectAttempted /\ rcg.last_attempt # None /\ ~rcg.stopped) =>
              rcg'.last_attempt - rcg.last_attempt >= ReconnectCooldown
       /\ FailureInsideCooldown =>
              /\ ~ReconnectAttempted
              /\ api'.qmt_reconnect_count = api.qmt_reconnect_count
              /\ api'.qmt_last_reconnect_time = api.qmt_last_reconnect_time
      ]_vars

\* C26 witness: a second attempt of the same run has been made by the first
\* health-check run that can be a cooldown after the first attempt.
C26_Witness ==
    /\ api.running
    /\ ~rcg.stopped
    /\ rcg.attempts = 2
    /\ api.qmt_last_reconnect_time = rcg.last_attempt
    /\ rcg.last_attempt = 3 * HealthInterval + FireDelay
    /\ api.qmt_last_health_check_time = rcg.last_attempt

(***************************************************************************)
(* AutoTradeService: the rebalance, risk-check and scheduled-refill cycles. *)
(* A cycle is a sequence of steps; the rebalance and the risk check share   *)
(* the variable cy (one of them runs at a time), the refill cycle rf runs   *)
(* beside them.  Prices and amounts are in yuan.                            *)
(***************************************************************************)
\* What get_quote can return as lastPrice / lastClose (0: no price).
QuotePrices == {0, 450, 500, 550}
LastCloses == {0, 500}
\* The prices a rebalance sell tells apart (none, some) and those that give
\* a buy its different volumes.
SellPrices == {0, 500}
BuyPrices == {0, 500, 550}
\* The amount used when no fixed amount is set or the asset query fails.
DefaultAmount == 10000
FixedAmounts == {5000}
\* asset.cash as get_asset returns it; None: the query returned no asset.
CashReplies == {None, 0, 21000}
\* can_use_volume of a held code.
CanUseVolumes == {0, LotSize, 3 * LotSize}
\* Holdings get_positions can return (codes with volume > 0).
PositionSets == UNION {[S -> CanUseVolumes] : S \in SUBSET Codes}
\* Target lists get_today_bonds can return: distinct codes, ranked.
TargetLists ==
    {t \in UNION {[1..n -> Codes] : n \in 0..NCodes} :
        \A i, j \in DOMAIN t : i # j => t[i] # t[j]}
\* The configurations set_config can install.
Configs ==
    {CfgNone}
    \cup {[strategy |-> TRUE, buy_amount_type |-> "fixed", fixed_amount |-> a,
           stop_profit_ratio |-> 1, stop_loss_ratio |-> 1] : a \in FixedAmounts}
    \cup {[strategy |-> TRUE, buy_amount_type |-> "average", fixed_amount |-> 0,
           stop_profit_ratio |-> 1, stop_loss_ratio |-> 1]}

Range(f) == {f[x] : x \in DOMAIN f}
Restrict(f, S) == [x \in S \cap DOMAIN f |-> f[x]]

\* ensure_connected(max_retries): true as soon as one probe is healthy;
\* replies[i] is what the asset query of probe i does.
ensure_connected(q, replies) ==
    \E i \in DOMAIN replies : health_check(q, replies[i])

\* The replies the two probes of ensure_connected(max_retries=2) can meet; a
\* second probe is made only after a failed first one.
EnsureReplies ==
    {r \in [1..2 -> ProbeReplies] : r[1] = "asset" => r[2] = "asset"}

\* A cut-off test that lets one more second pass.
past_deadline_late(tod) == tod > RefillDeadline + 1

\* _add_to_refill_queue: current_time > refill_deadline
past_deadline(tod) == tod > RefillDeadline

\* A sell volume that ignores the project record.
sell_volume_all_available(record_volume, can_use_volume) == can_use_volume

\* min(record.volume, pos.can_use_volume); without a record (_sell_bond
\* only) the whole available volume.
sell_volume(record_volume, can_use_volume) ==
    IF record_volume # None THEN Min(record_volume, can_use_volume)
    ELSE can_use_volume

\* A volume rounded up to the next whole lot.
buy_volume_up(amount, price) ==
    ((amount.num + amount.den * price * LotSize - 1)
         \div (amount.den * price * LotSize)) * LotSize

\* _buy_bond: volume = int(amount / price / 10) * 10, for price > 0.
buy_volume(amount, price) ==
    (amount.num \div (amount.den * price * LotSize)) * LotSize

\* _calculate_buy_amount that hands every bond the whole available cash.
calculate_buy_amount_undivided(c, bond_count, connected, cash) ==
    IF c.buy_amount_type = "none" \/ bond_count <= 0 THEN NoAmount
    ELSE IF c.buy_amount_type = "fixed"
    THEN [num |-> IF c.fixed_amount # 0 THEN c.fixed_amount ELSE DefaultAmount,
          den |-> 1]
    ELSE IF ~connected \/ cash = None THEN [num |-> DefaultAmount, den |-> 1]
    ELSE [num |-> cash, den |-> 1]

\* _calculate_buy_amount; connected, cash: what get_asset meets.
calculate_buy_amount(c, bond_count, connected, cash) ==
    IF c.buy_amount_type = "none" \/ bond_count <= 0 THEN NoAmount
    ELSE IF c.buy_amount_type = "fixed"
    THEN [num |-> IF c.fixed_amount # 0 THEN c.fixed_amount ELSE DefaultAmount,
          den |-> 1]
    ELSE IF ~connected \/ cash = None THEN [num |-> DefaultAmount, den |-> 1]
    ELSE [num |-> cash, den |-> bond_count]

\* Database.add_refill_queue: one row under the date of the write (the
\* columns no reader of the queue uses, name, volume, price, reason and
\* created_at, are left out of the row; rows are kept in created_at order).
add_refill_queue(queue, t, item) ==
    Append(queue, [date |-> t.date, stock_code |-> item.stock_code])

\* A read that forgets the date filter.
get_refill_queue_all_dates(queue, date) == queue

\* Database.get_refill_queue: the rows of the date, in created_at order.
get_refill_queue(queue, date) == SelectSeq(queue, LAMBDA r : r.date = date)

\* A clear that deletes nothing.
clear_refill_queue_keep(queue, date) == queue

\* Database.clear_refill_queue: deletes the rows of the date.
clear_refill_queue(queue, date) == SelectSeq(queue, LAMBDA r : r.date # date)

\* A selection that counts a code of today's queue as still held.
refill_to_buy_queue_held(target_bonds, current_codes, queue_today) ==
    LET candidates == SelectSeq(target_bonds,
                                LAMBDA c : c \notin current_codes)
    IN  SubSeq(candidates, 1, Min(Len(queue_today), Len(candidates)))

\* execute_scheduled_refill steps 5-8: the first N targets not held, where
\* a code of today's queue does not count as held.
refill_to_buy(target_bonds, current_codes, queue_today) ==
    LET held == current_codes \ {queue_today[i].stock_code :
                                     i \in DOMAIN queue_today}
        candidates == SelectSeq(target_bonds, LAMBDA c : c \notin held)
    IN  SubSeq(candidates, 1, Min(Len(queue_today), Len(candidates)))

\* The order ids sell_stock / buy_stock hand back: the broker's -1 for a
\* refused order, 0, and a real id.
OrderIds == {-1, 0, 1}

\* A test that takes order id 0 for an accepted order.
order_accepted_zero(order_id) == order_id >= 0

\* "if order_id > 0" in _sell_bond, _execute_stop_order and _buy_bond.
order_accepted(order_id) == order_id > 0

\* What one per-instrument routine did when it placed no order; notice is
\* the notification the routine sent.
NoTrade(records, ensured, outcome) ==
    [position_records |-> records, order |-> NoOrder, op |-> NoOp,
     ensured |-> ensured, outcome |-> outcome, sold |-> <<>>,
     notice |-> IF outcome = "suspended"
                THEN "send_suspended_notification" ELSE "none"]

\* The project record of a code in a cycle's snapshot, None without one.
RecordVolume(c, stock_code) ==
    IF stock_code \in DOMAIN c.project_records
    THEN c.project_records[stock_code].volume ELSE None

\* A _sell_bond without the test of the quoted price.
sell_bond_any_price(records, c, stock_code, ensure_ok, price, suspended, accepted) ==
    LET held == stock_code \in DOMAIN c.positions
        can_use == IF held THEN c.positions[stock_code] ELSE 0
        record_volume == RecordVolume(c, stock_code)
        volume == sell_volume(record_volume, can_use)
    IN  IF ~held \/ can_use <= 0 \/ volume <= 0 \/ ~ensure_ok \/ suspended
        THEN NoTrade(records, c.ensured, "skipped")
        ELSE [position_records |->
                  IF accepted /\ record_volume # None
                  THEN update_position_record(records, stock_code, volume)
                  ELSE records,
              order |-> [side |-> "sell", by |-> c.kind, volume |-> volume,
                         record_volume |-> record_volume,
                         can_use_volume |-> can_use,
                         foreign_held |-> c.foreign_held],
              op |-> [name |-> "sell_stock", by |-> c.kind, ensured |-> TRUE],
              ensured |-> TRUE,
              outcome |-> IF accepted THEN "sold" ELSE "rejected",
              sold |-> <<>>,
              notice |-> IF accepted THEN "none"
                         ELSE "send_trade_error_notification"]

\* _sell_bond for one code of to_sell_codes, in cycle c.  ensure_ok, price,
\* suspended, accepted: what ensure_connected, get_quote, is_suspended and
\* sell_stock (order_id > 0) answer.
sell_bond(records, c, stock_code, ensure_ok, price, suspended, accepted) ==
    LET held == stock_code \in DOMAIN c.positions
        can_use == IF held THEN c.positions[stock_code] ELSE 0
        record_volume == RecordVolume(c, stock_code)
        volume == sell_volume(record_volume, can_use)
    IN  IF ~held \/ can_use <= 0
        THEN NoTrade(records, c.ensured, "no_position")
        ELSE IF volume <= 0 THEN NoTrade(records, c.ensured, "no_volume")
        ELSE IF ~ensure_ok THEN NoTrade(records, c.ensured, "ensure_failed")
        ELSE IF price <= 0 THEN NoTrade(records, TRUE, "no_price")
        ELSE IF suspended THEN NoTrade(records, TRUE, "suspended")
        ELSE [position_records |->
                  IF accepted /\ record_volume # None
                  THEN update_position_record(records, stock_code, volume)
                  ELSE records,
              order |-> [side |-> "sell", by |-> c.kind, volume |-> volume,
                         record_volume |-> record_volume,
                         can_use_volume |-> can_use,
                         foreign_held |-> c.foreign_held],
              op |-> [name |-> "sell_stock", by |-> c.kind, ensured |-> TRUE],
              ensured |-> TRUE,
              outcome |-> IF accepted THEN "sold" ELSE "rejected",
              sold |-> <<>>,
              notice |-> IF accepted THEN "none"
                         ELSE "send_trade_error_notification"]

\* _execute_stop_order for a triggered position.
execute_stop_order(records, c, stock_code, reason, accepted) ==
    LET can_use == c.positions[stock_code]
        record_volume == RecordVolume(c, stock_code)
        volume == sell_volume(record_volume, can_use)
    IN  IF volume <= 0 THEN NoTrade(records, TRUE, "no_volume")
        ELSE [position_records |->
                  IF accepted
                  THEN update_position_record(records, stock_code, volume)
                  ELSE records,
              order |-> [side |-> "sell", by |-> c.kind, volume |-> volume,
                         record_volume |-> record_volume,
                         can_use_volume |-> can_use,
                         foreign_held |-> c.foreign_held],
              op |-> [name |-> "sell_stock", by |-> c.kind, ensured |-> TRUE],
              ensured |-> TRUE,
              outcome |-> IF accepted THEN "sold" ELSE "rejected",
              sold |-> IF accepted THEN <<[stock_code |-> stock_code]>>
                       ELSE <<>>,
              notice |-> IF accepted THEN "send_trade_success_notification"
                         ELSE "send_trade_error_notification"]

\* _check_single_position for one project record that has a position.
check_single_position(records, c, stock_code, ensure_ok, price, last_close, suspended, accepted) ==
    LET d == stop_decision(ensure_ok, price, suspended, last_close,
                           cfg.stop_profit_ratio, cfg.stop_loss_ratio)
    IN  IF d \in {"stop_profit", "stop_loss"}
        THEN execute_stop_order(records, c, stock_code, d, accepted)
        ELSE NoTrade(records, c.ensured \/ ensure_ok,
                     IF ~ensure_ok THEN "ensure_failed" ELSE d)

\* _buy_bond for one code with the per-bond amount, called by a cycle of
\* kind by whose earlier connection checks gave ensured.
buy_bond(records, by, ensured, stock_code, amount, ensure_ok, price, accepted) ==
    IF ~ensure_ok THEN NoTrade(records, ensured, "ensure_failed")
    ELSE IF price <= 0 THEN NoTrade(records, TRUE, "no_price")
    ELSE IF buy_volume(amount, price) < LotSize
    THEN NoTrade(records, TRUE, "no_volume")
    ELSE [position_records |->
              IF accepted
              THEN add_position_record(records, stock_code,
                                       buy_volume(amount, price))
              ELSE records,
          order |-> [side |-> "buy", by |-> by,
                     volume |-> buy_volume(amount, price),
                     record_volume |-> None, can_use_volume |-> None,
                     foreign_held |-> FALSE],
          op |-> [name |-> "buy_stock", by |-> by, ensured |-> TRUE],
          ensured |-> TRUE,
          outcome |-> IF accepted THEN "bought" ELSE "rejected",
          sold |-> <<>>,
          notice |-> IF accepted THEN "none"
                     ELSE "send_trade_error_notification"]

\* The state after construction and start_trading (connect, set_config): an
\* empty ledger and queue, a connected session, some configuration, a time
\* before the cut-off.
Init ==
    /\ position_records = EmptyLedger
    /\ db_call = NoCall
    /\ qmt = qmt_connect(QmtInit, "ok")
    /\ ec = EnsureIdle
    /\ sp = StopIdle
    /\ df = DiffIdle
    /\ api = ApiInit
    /\ clock = 0
    /\ rcg = RcgInit
    /\ cfg \in Configs
    /\ now = NowInit
    /\ refill_queue = <<>>
    /\ cy = CycleIdle
    /\ rf = RefillIdle
    /\ gh = GhostInit
    /\ pk = PickIdle
    /\ tr = TradeIdle
    /\ gt = GateIdle
    /\ th = ThreadsInit
    /\ tx = TxInit
    /\ bq = BatchInit
    /\ hl = HealthInit
    /\ sch = SchedulerInit
    /\ dc = SessionInit

\* Every ledger row stays within the volume bound of the model.
WithinBound(records) ==
    \A c \in DOMAIN records : records[c].volume <= MaxHeld

\* Time passes within the day.  The steps that read the time are RiskEnqueue,
\* RefillStart and RefillClear; a passage of time commutes with every other
\* step, so it is taken where a cycle is idle or about to read the time.
Tick ==
    /\ cy.pc \in {"idle", "enqueue"} \/ rf.pc = "clear"
    /\ now.tod < RefillDeadline + 1
    /\ now' = [now EXCEPT !.tod = @ + 1]
    /\ gh' = GhostInit
    /\ UNCHANGED <<position_records, qmt, cfg, refill_queue, cy, rf, notTrade>>

\* The next day begins; no cycle runs across midnight.
NextDay ==
    /\ now.tod = RefillDeadline + 1
    /\ now.date < MaxDays
    /\ cy.pc = "idle"
    /\ rf.pc = "idle"
    /\ now' = [date |-> now.date + 1, tod |-> RefillDeadline - 1]
    /\ gh' = GhostInit
    /\ UNCHANGED <<position_records, qmt, cfg, refill_queue, cy, rf, notTrade>>

\* A start that goes on with an empty target list.
rebalance_start_empty_target(records, c, q, replies, target_bonds, positions) ==
    LET target_codes == Range(target_bonds)
        current_codes == DOMAIN positions
        project_codes == DOMAIN records
        sells == to_sell_codes(project_codes, current_codes, target_codes)
        buys == to_buy(target_codes, current_codes)
    IN  IF ~c.strategy \/ ~is_connected(q) \/ ~ensure_connected(q, replies)
        THEN [cy |-> CycleIdle, gh |-> GhostInit]
        ELSE [cy |-> [kind |-> "rebalance",
                      pc |-> IF sells # {} THEN "sell" ELSE "amount",
                      project_records |-> Restrict(records, sells),
                      positions |-> Restrict(positions, sells),
                      to_sell_codes |-> sells, to_buy |-> buys,
                      buy_amount |-> NoAmount, sold_items |-> <<>>,
                      ensured |-> TRUE,
                      foreign_held |-> current_codes \ project_codes # {}],
              gh |-> [GhostInit EXCEPT
                         !.op = [name |-> "get_positions", by |-> "rebalance",
                                 ensured |-> TRUE]]]

\* execute_rebalance up to step 4: the gates, the target list, the holdings,
\* the project records and the two sets.
rebalance_start(records, c, q, replies, target_bonds, positions) ==
    LET target_codes == Range(target_bonds)
        current_codes == DOMAIN positions
        project_codes == DOMAIN records
        sells == to_sell_codes(project_codes, current_codes, target_codes)
        buys == to_buy(target_codes, current_codes)
    IN  IF ~c.strategy
        THEN [cy |-> CycleIdle, gh |-> GhostInit]
        ELSE IF ~is_connected(q)
        THEN [cy |-> CycleIdle, gh |-> GhostInit]
        ELSE IF ~ensure_connected(q, replies)
        THEN [cy |-> CycleIdle, gh |-> GhostInit]
        ELSE IF target_bonds = <<>>
        THEN [cy |-> CycleIdle, gh |-> GhostInit]
        ELSE [cy |-> [kind |-> "rebalance",
                      pc |-> IF sells # {} THEN "sell" ELSE "amount",
                      project_records |-> Restrict(records, sells),
                      positions |-> Restrict(positions, sells),
                      to_sell_codes |-> sells, to_buy |-> buys,
                      buy_amount |-> NoAmount, sold_items |-> <<>>,
                      ensured |-> TRUE,
                      foreign_held |-> current_codes \ project_codes # {}],
              gh |-> [GhostInit EXCEPT
                         !.op = [name |-> "get_positions", by |-> "rebalance",
                                 ensured |-> TRUE]]]

\* One start of execute_rebalance.
RebalanceStart ==
    /\ cy.pc = "idle"
    /\ rf.pc = "idle"
    /\ \E replies \in EnsureReplies, target_bonds \in TargetLists,
          positions \in PositionSets :
        /\ LET r == rebalance_start(position_records, cfg, qmt, replies,
                                    target_bonds, positions)
           IN  cy' = r.cy /\ gh' = r.gh
        /\ UNCHANGED <<position_records, qmt, cfg, now, refill_queue, rf,
                       notTrade>>

\* Step 5, one iteration: _sell_bond for a code of to_sell_codes.
RebalanceSell ==
    /\ cy.kind = "rebalance"
    /\ cy.pc = "sell"
    /\ rf.pc = "idle"
    /\ \E stock_code \in cy.to_sell_codes, reply \in ProbeReplies,
          price \in SellPrices, suspended \in BOOLEAN, accepted \in BOOLEAN :
        /\ LET r == sell_bond(position_records, cy, stock_code,
                              health_check(qmt, reply), price, suspended,
                              accepted)
               rest == cy.to_sell_codes \ {stock_code}
           IN  /\ position_records' = r.position_records
               /\ cy' = [cy EXCEPT
                            !.to_sell_codes = rest,
                            !.project_records = Restrict(@, rest),
                            !.positions = Restrict(@, rest),
                            !.ensured = r.ensured,
                            !.pc = IF rest = {} THEN "amount" ELSE "sell"]
               /\ gh' = [GhostInit EXCEPT !.op = r.op, !.order = r.order]
        /\ UNCHANGED <<qmt, cfg, now, refill_queue, rf, notTrade>>

\* Step 6: _calculate_buy_amount(len(to_buy)).
RebalanceAmount ==
    /\ cy.kind = "rebalance"
    /\ cy.pc = "amount"
    /\ rf.pc = "idle"
    /\ \E cash \in CashReplies :
        /\ LET n == Cardinality(cy.to_buy)
               queried == /\ cfg.buy_amount_type = "average"
                          /\ n > 0
                          /\ is_connected(qmt)
           IN  /\ cy' = IF cy.to_buy = {} THEN CycleIdle
                        ELSE [cy EXCEPT
                                 !.pc = "buy",
                                 !.buy_amount = calculate_buy_amount(
                                     cfg, n, is_connected(qmt), cash)]
               /\ gh' = [GhostInit EXCEPT
                            !.op = IF queried
                                   THEN [name |-> "get_asset",
                                         by |-> cy.kind,
                                         ensured |-> cy.ensured]
                                   ELSE NoOp]
        /\ UNCHANGED <<position_records, qmt, cfg, now, refill_queue, rf,
                       notTrade>>

\* Step 7, one iteration: _buy_bond for a code of to_buy.
RebalanceBuy ==
    /\ cy.kind = "rebalance"
    /\ cy.pc = "buy"
    /\ rf.pc = "idle"
    /\ \E stock_code \in cy.to_buy, reply \in ProbeReplies,
          price \in BuyPrices, accepted \in BOOLEAN :
        /\ LET r == buy_bond(position_records, cy.kind, cy.ensured,
                             stock_code, cy.buy_amount,
                             health_check(qmt, reply), price, accepted)
               rest == cy.to_buy \ {stock_code}
           IN  /\ WithinBound(r.position_records)
               /\ position_records' = r.position_records
               /\ cy' = IF rest = {} THEN CycleIdle
                        ELSE [cy EXCEPT !.to_buy = rest,
                                        !.ensured = r.ensured]
               /\ gh' = [GhostInit EXCEPT !.op = r.op, !.order = r.order]
        /\ UNCHANGED <<qmt, cfg, now, refill_queue, rf, notTrade>>

\* A start that goes on with an empty ledger.
risk_start_empty_ledger(records, c, q, positions) ==
    LET checked == DOMAIN records \cap DOMAIN positions
    IN  IF ~c.strategy \/ ~is_connected(q)
        THEN [cy |-> CycleIdle, gh |-> GhostInit]
        ELSE [cy |-> IF checked = {} THEN CycleIdle
                     ELSE [CycleIdle EXCEPT
                              !.kind = "risk", !.pc = "check",
                              !.project_records = Restrict(records, checked),
                              !.positions = Restrict(positions, checked),
                              !.foreign_held =
                                  DOMAIN positions \ DOMAIN records # {}],
              gh |-> [GhostInit EXCEPT
                         !.op = [name |-> "get_positions", by |-> "risk",
                                 ensured |-> FALSE]]]

\* execute_stop_profit_loss_check up to the loop: the gates, the project
\* records and the holdings; a record without a position is passed over.
risk_start(records, c, q, positions) ==
    LET checked == DOMAIN records \cap DOMAIN positions
    IN  IF ~c.strategy
        THEN [cy |-> CycleIdle, gh |-> GhostInit]
        ELSE IF ~is_connected(q)
        THEN [cy |-> CycleIdle, gh |-> GhostInit]
        ELSE IF DOMAIN records = {}
        THEN [cy |-> CycleIdle, gh |-> GhostInit]
        ELSE [cy |-> IF checked = {} THEN CycleIdle
                     ELSE [CycleIdle EXCEPT
                              !.kind = "risk", !.pc = "check",
                              !.project_records = Restrict(records, checked),
                              !.positions = Restrict(positions, checked),
                              !.foreign_held =
                                  DOMAIN positions \ DOMAIN records # {}],
              gh |-> [GhostInit EXCEPT
                         !.op = [name |-> "get_positions", by |-> "risk",
                                 ensured |-> FALSE]]]

\* One start of execute_stop_profit_loss_check.
RiskStart ==
    /\ cy.pc = "idle"
    /\ rf.pc = "idle"
    /\ \E positions \in PositionSets :
        /\ LET r == risk_start(position_records, cfg, qmt, positions)
           IN  cy' = r.cy /\ gh' = r.gh
        /\ UNCHANGED <<position_records, qmt, cfg, now, refill_queue, rf,
                       notTrade>>

\* One iteration of the loop: _check_single_position for a project record.
RiskCheck ==
    /\ cy.kind = "risk"
    /\ cy.pc = "check"
    /\ rf.pc = "idle"
    /\ \E stock_code \in DOMAIN cy.project_records, reply \in ProbeReplies,
          price \in QuotePrices, last_close \in LastCloses,
          suspended \in BOOLEAN, accepted \in BOOLEAN :
        /\ LET r == check_single_position(position_records, cy, stock_code,
                        health_check(qmt, reply), price, last_close,
                        suspended, accepted)
               rest == DOMAIN cy.project_records \ {stock_code}
               sold == cy.sold_items \o r.sold
           IN  /\ Len(refill_queue) + Len(sold) <= MaxQueue
               /\ position_records' = r.position_records
               /\ cy' = IF rest = {} /\ sold = <<>> THEN CycleIdle
                        ELSE [cy EXCEPT
                                 !.project_records = Restrict(@, rest),
                                 !.positions = Restrict(@, rest),
                                 !.sold_items = sold,
                                 !.ensured = r.ensured,
                                 !.pc = IF rest = {} THEN "enqueue"
                                        ELSE "check"]
               /\ gh' = [GhostInit EXCEPT !.op = r.op, !.order = r.order]
        /\ UNCHANGED <<qmt, cfg, now, refill_queue, rf, notTrade>>

\* The rows _add_to_refill_queue writes for a batch at time t.
RECURSIVE add_all(_, _, _)
add_all(queue, t, items) ==
    IF items = <<>> THEN queue
    ELSE add_all(add_refill_queue(queue, t, Head(items)), t, Tail(items))

\* _add_to_refill_queue(sold_items): the batch is dropped past the cut-off,
\* written otherwise.
RiskEnqueue ==
    /\ cy.kind = "risk"
    /\ cy.pc = "enqueue"
    /\ refill_queue' = IF past_deadline(now.tod) THEN refill_queue
                       ELSE add_all(refill_queue, now, cy.sold_items)
    /\ cy' = CycleIdle
    /\ gh' = [GhostInit EXCEPT
                 !.queue = [name |-> IF past_deadline(now.tod) THEN "drop"
                                     ELSE "add",
                            date |-> now.date, tod |-> now.tod,
                            dates |-> {now.date}]]
    /\ UNCHANGED <<position_records, qmt, cfg, now, rf, notTrade>>

\* The refill job (cron 14:50) fires: execute_scheduled_refill up to step 8.
RefillStart ==
    /\ rf.pc = "idle"
    /\ cy.pc \in {"idle", "enqueue"}
    /\ now.tod >= RefillDeadline
    /\ \E target_bonds \in TargetLists, positions \in PositionSets :
        /\ LET queue_today == get_refill_queue(refill_queue, now.date)
               buys == refill_to_buy(target_bonds, DOMAIN positions,
                                     queue_today)
               read == [name |-> "read", date |-> now.date, tod |-> now.tod,
                        dates |-> {queue_today[i].date :
                                       i \in DOMAIN queue_today}]
           IN  IF ~cfg.strategy
               THEN rf' = RefillIdle /\ gh' = GhostInit
               ELSE IF ~is_connected(qmt)
               THEN rf' = RefillIdle /\ gh' = GhostInit
               ELSE IF queue_today = <<>>
               THEN /\ rf' = RefillIdle
                    /\ gh' = [GhostInit EXCEPT !.queue = read]
               ELSE IF target_bonds = <<>>
               THEN /\ rf' = RefillIdle
                    /\ gh' = [GhostInit EXCEPT !.queue = read]
               ELSE /\ rf' = IF buys = <<>> THEN RefillIdle
                             ELSE [RefillIdle EXCEPT !.pc = "amount",
                                                     !.to_buy = buys]
                    /\ gh' = [GhostInit EXCEPT
                                 !.queue = read,
                                 !.op = [name |-> "get_positions",
                                         by |-> "refill", ensured |-> FALSE]]
        /\ UNCHANGED <<position_records, qmt, cfg, now, refill_queue, cy,
                       notTrade>>

\* Step 9: _calculate_buy_amount(len(to_buy)); an amount <= 0 ends the cycle.
RefillAmount ==
    /\ rf.pc = "amount"
    /\ cy.pc \in {"idle", "enqueue"}
    /\ \E cash \in CashReplies :
        /\ LET amount == calculate_buy_amount(cfg, Len(rf.to_buy),
                                              is_connected(qmt), cash)
               queried == /\ cfg.buy_amount_type = "average"
                          /\ is_connected(qmt)
           IN  /\ rf' = IF amount.num <= 0 THEN RefillIdle
                        ELSE [rf EXCEPT !.pc = "buy", !.buy_amount = amount]
               /\ gh' = [GhostInit EXCEPT
                            !.op = IF queried
                                   THEN [name |-> "get_asset",
                                         by |-> "refill",
                                         ensured |-> rf.ensured]
                                   ELSE NoOp]
        /\ UNCHANGED <<position_records, qmt, cfg, now, refill_queue, cy,
                       notTrade>>

\* Step 10, one iteration: _buy_bond for the next bond of to_buy.
RefillBuy ==
    /\ rf.pc = "buy"
    /\ cy.pc \in {"idle", "enqueue"}
    /\ \E reply \in ProbeReplies, price \in BuyPrices, accepted \in BOOLEAN :
        /\ LET r == buy_bond(position_records, "refill", rf.ensured,
                             Head(rf.to_buy), rf.buy_amount,
                             health_check(qmt, reply), price, accepted)
               rest == Tail(rf.to_buy)
           IN  /\ WithinBound(r.position_records)
               /\ position_records' = r.position_records
               /\ rf' = [rf EXCEPT !.to_buy = rest, !.ensured = r.ensured,
                                   !.pc = IF rest = <<>> THEN "clear"
                                          ELSE "buy"]
               /\ gh' = [GhostInit EXCEPT !.op = r.op, !.order = r.order]
        /\ UNCHANGED <<qmt, cfg, now, refill_queue, cy, notTrade>>

\* Step 11: clear_refill_queue() for the date of the clearing.
RefillClear ==
    /\ rf.pc = "clear"
    /\ cy.pc \in {"idle", "enqueue"}
    /\ refill_queue' = clear_refill_queue(refill_queue, now.date)
    /\ rf' = RefillIdle
    /\ gh' = [GhostInit EXCEPT
                 !.queue = [name |-> "clear", date |-> now.date,
                            tod |-> now.tod,
                            dates |-> {refill_queue[i].date :
                                          i \in {j \in DOMAIN refill_queue :
                                                 refill_queue[j].date
                                                     = now.date}}]]
    /\ UNCHANGED <<position_records, qmt, cfg, now, cy, notTrade>>

\* The session comes and goes while the cycles run.
SessionUp ==
    /\ ~qmt.connected
    /\ qmt' = qmt_connect(qmt, "ok")
    /\ gh' = GhostInit
    /\ UNCHANGED <<position_records, cfg, now, refill_queue, cy, rf, notTrade>>

SessionDown ==
    /\ qmt.connected
    /\ qmt' = [qmt EXCEPT !.connected = FALSE]
    /\ gh' = GhostInit
    /\ UNCHANGED <<position_records, cfg, now, refill_queue, cy, rf, notTrade>>

Next ==
    \/ Tick
    \/ RebalanceStart
    \/ RebalanceSell
    \/ RebalanceAmount
    \/ RebalanceBuy
    \/ RiskStart
    \/ RiskCheck
    \/ RiskEnqueue
    \/ RefillStart
    \/ RefillAmount
    \/ RefillBuy
    \/ RefillClear
    \/ SessionUp
    \/ SessionDown

Spec == Init /\ [][Next]_vars

(***************************************************************************)
(* The refill queue over several days: risk checks and scheduled refills   *)
(* on a ledger that earlier rebalances have filled.                        *)
(***************************************************************************)
\* The ledgers rebalances leave behind: whole lots within the bound.
Ledgers ==
    UNION {[S -> [volume : {v \in BuyVolumes : v <= MaxHeld}]] :
               S \in SUBSET Codes}

InitQueue ==
    /\ position_records \in Ledgers
    /\ db_call = NoCall
    /\ qmt = qmt_connect(QmtInit, "ok")
    /\ ec = EnsureIdle
    /\ sp = StopIdle
    /\ df = DiffIdle
    /\ api = ApiInit
    /\ clock = 0
    /\ rcg = RcgInit
    /\ cfg \in Configs
    /\ now = NowInit
    /\ refill_queue = <<>>
    /\ cy = CycleIdle
    /\ rf = RefillIdle
    /\ gh = GhostInit
    /\ pk = PickIdle
    /\ tr = TradeIdle
    /\ gt = GateIdle
    /\ th = ThreadsInit
    /\ tx = TxInit
    /\ bq = BatchInit
    /\ hl = HealthInit
    /\ sch = SchedulerInit
    /\ dc = SessionInit

NextQueue ==
    \/ Tick
    \/ NextDay
    \/ RiskStart
    \/ RiskCheck
    \/ RiskEnqueue
    \/ RefillStart
    \/ RefillAmount
    \/ RefillBuy
    \/ RefillClear
    \/ SessionUp
    \/ SessionDown

SpecQueue == InitQueue /\ [][NextQueue]_vars

(***************************************************************************)
(* Properties of the cycles.                                               *)
(***************************************************************************)
\* C1: every sell order placed by execute_rebalance or by the risk check is
\* for a code that had a project record when that cycle read the ledger, also
\* when the account holds codes the ledger does not know.
C1_SellsOnlyLedgerCodes ==
    gh.order.side = "sell" => gh.order.record_volume # None

\* C1 witness: a rebalance has placed a sell order while the account held a
\* code without a project record.
C1_Witness ==
    /\ gh.order.side = "sell"
    /\ gh.order.by = "rebalance"
    /\ gh.order.foreign_held
    /\ gh.order.record_volume # None

\* C2: a sell order for a recorded code has the volume min(record volume,
\* available volume), both as read in that cycle, and that volume is > 0.
C2_SellVolumeIsMin ==
    (gh.order.side = "sell" /\ gh.order.record_volume # None) =>
        /\ gh.order.volume
               = Min(gh.order.record_volume, gh.order.can_use_volume)
        /\ gh.order.volume > 0

\* C2 witness: the risk check has sold a code whose available volume was
\* larger than its recorded volume.
C2_Witness ==
    /\ gh.order.side = "sell"
    /\ gh.order.by = "risk"
    /\ gh.order.record_volume # None
    /\ gh.order.can_use_volume > gh.order.record_volume
    /\ gh.order.volume = gh.order.record_volume

\* C6: every operation on the trading session (positions query, asset query,
\* buy or sell order) of a rebalance, risk-check or refill cycle comes after
\* an ensure_connected call of that cycle that returned true.
C6_SessionOpsEnsured ==
    gh.op.name # "none" => gh.op.ensured

\* C7 as stated: an item is written only before the cut-off, read and cleared
\* only at or after the cut-off of its own date, and no row of an earlier
\* date is left in the queue.
C7_CreatedBeforeConsumedSameDay ==
    /\ gh.queue.name = "add" => gh.queue.tod < RefillDeadline
    /\ gh.queue.name \in {"read", "clear"} =>
           /\ gh.queue.tod >= RefillDeadline
           /\ gh.queue.dates \subseteq {gh.queue.date}
    /\ \A i \in DOMAIN refill_queue : refill_queue[i].date = now.date

\* C7, amended: an item is written only at a time not past the cut-off (the
\* cut-off instant included); the scheduled refill reads and clears, at or
\* after the cut-off, only rows of the current date, so no item is consumed
\* on a later date; a row may outlive its date in the table.
C7_NeverConsumedLater ==
    /\ gh.queue.name = "add" => gh.queue.tod <= RefillDeadline
    /\ gh.queue.name \in {"read", "clear"} =>
           /\ gh.queue.tod >= RefillDeadline
           /\ gh.queue.dates \subseteq {gh.queue.date}
    /\ \A i \in DOMAIN refill_queue : refill_queue[i].date <= now.date

\* C7 witness: a refill has cleared the rows of today while a row of an
\* earlier date stays in the queue.
C7_Witness ==
    /\ gh.queue.name = "clear"
    /\ gh.queue.dates = {now.date}
    /\ \E i \in DOMAIN refill_queue : refill_queue[i].date < now.date

\* C8: enqueueing a batch of sold items at a time past the cut-off leaves the
\* refill queue unchanged.
C8_PastCutoffEnqueueNoOp ==
    [][(cy.pc = "enqueue" /\ cy'.pc = "idle" /\ now.tod > RefillDeadline)
           => refill_queue' = refill_queue]_vars

\* C8 witness: a batch has been dropped past the cut-off while the queue
\* held rows.
C8_Witness ==
    /\ gh.queue.name = "drop"
    /\ gh.queue.tod > RefillDeadline
    /\ refill_queue # <<>>

(***************************************************************************)
(* The buy list of execute_scheduled_refill, for every target list,        *)
(* holdings and queue over a few codes.                                    *)
(***************************************************************************)
NPickCodes == 4
MaxPickQueue == 2
PickCodes == 1..NPickCodes

\* Ranked target lists: distinct codes.
PickTargets ==
    {t \in UNION {[1..n -> PickCodes] : n \in 0..NPickCodes} :
        \A i, j \in DOMAIN t : i # j => t[i] # t[j]}
\* Today's queue rows, in created_at order; a code can be queued twice.
PickQueues ==
    UNION {[1..n -> [date : {1}, stock_code : PickCodes]] :
               n \in 0..MaxPickQueue}

InitPick ==
    /\ position_records = EmptyLedger
    /\ db_call = NoCall
    /\ qmt = QmtInit
    /\ ec = EnsureIdle
    /\ sp = StopIdle
    /\ df = DiffIdle
    /\ api = ApiInit
    /\ clock = 0
    /\ rcg = RcgInit
    /\ cfg = CfgNone
    /\ now = NowInit
    /\ refill_queue = <<>>
    /\ cy = CycleIdle
    /\ rf = RefillIdle
    /\ gh = GhostInit
    /\ pk \in [pc : {"start"}, target_bonds : PickTargets,
               current_codes : SUBSET PickCodes, refill_queue : PickQueues,
               to_buy : {<<>>}]
    /\ tr = TradeIdle
    /\ gt = GateIdle
    /\ th = ThreadsInit
    /\ tx = TxInit
    /\ bq = BatchInit
    /\ hl = HealthInit
    /\ sch = SchedulerInit
    /\ dc = SessionInit

\* The returns before the buy list exists: empty queue, empty target list,
\* no candidate.
PickReturn ==
    /\ pk.pc = "start"
    /\ \/ pk.refill_queue = <<>>
       \/ pk.target_bonds = <<>>
       \/ refill_to_buy(pk.target_bonds, pk.current_codes,
                        pk.refill_queue) = <<>>
    /\ pk' = [pk EXCEPT !.pc = "returned"]
    /\ UNCHANGED notPk

\* to_buy = candidates[:total_refill_count]
PickCompute ==
    /\ pk.pc = "start"
    /\ pk.refill_queue # <<>>
    /\ pk.target_bonds # <<>>
    /\ refill_to_buy(pk.target_bonds, pk.current_codes, pk.refill_queue)
           # <<>>
    /\ pk' = [pk EXCEPT
                 !.pc = "done",
                 !.to_buy = refill_to_buy(pk.target_bonds, pk.current_codes,
                                          pk.refill_queue)]
    /\ UNCHANGED notPk

NextPick ==
    \/ PickReturn
    \/ PickCompute

SpecPick == InitPick /\ [][NextPick]_vars

\* The rank of a code in a target list of distinct codes.
RankIn(t, c) == CHOOSE k \in DOMAIN t : t[k] = c

\* C11: the buy list of the scheduled refill holds only targets that are not
\* held (a code of today's queue does not count as held), in the ranking
\* order of the target list, at most N = number of queued rows of them, and a
\* candidate is left out only when N are taken and all of them rank before
\* it; this determines the list from the inputs.
C11_RefillBuyList ==
    pk.pc = "done" =>
        LET t == pk.target_bonds
            b == pk.to_buy
            N == Len(pk.refill_queue)
            held == pk.current_codes
                        \ {pk.refill_queue[i].stock_code :
                               i \in DOMAIN pk.refill_queue}
        IN  /\ Len(b) <= N
            /\ \A i \in DOMAIN b : b[i] \in Range(t) /\ b[i] \notin held
            /\ \A i, j \in DOMAIN b :
                   i < j => RankIn(t, b[i]) < RankIn(t, b[j])
            /\ \A k \in DOMAIN t :
                   (t[k] \notin held /\ t[k] \notin Range(b)) =>
                       /\ Len(b) = N
                       /\ \A i \in DOMAIN b : RankIn(t, b[i]) < k

\* C11 witness: two rows are queued, one of them for a code still reported
\* as held, that code is bought back, and a third candidate is left out.
C11_Witness ==
    /\ pk.pc = "done"
    /\ Len(pk.refill_queue) = 2
    /\ Len(pk.to_buy) = 2
    /\ \E i \in DOMAIN pk.to_buy : pk.to_buy[i] \in pk.current_codes
    /\ \E k \in DOMAIN pk.target_bonds :
           /\ pk.target_bonds[k] \notin pk.current_codes
           /\ pk.target_bonds[k] \notin Range(pk.to_buy)

(***************************************************************************)
(* SchedulerService: the registered jobs and the fire-time wrappers.       *)
(* sch.jobs maps a registered job id to its trigger; a fire runs the       *)
(* wrapper of the job with what the day, the time and the callback do.     *)
(* An exception that leaves a wrapper is handled by the scheduler library  *)
(* (the job listener logs EVENT_JOB_ERROR) and the job stays scheduled.    *)
(***************************************************************************)
JobIds == {"bond_selection", "stop_profit_loss", "qmt_health_check",
           "token_refresh", "refill"}

ScheduleTypes == {"daily", "weekly", "monthly", "unknown"}

\* add_bond_selection_job with an unknown schedule type taken as daily.
trigger_of_unknown_daily(job, schedule_type) ==
    IF job = "bond_selection"
    THEN CASE schedule_type = "weekly" -> "cron_weekly"
           [] schedule_type = "monthly" -> "cron_monthly"
           [] OTHER -> "cron_daily"
    ELSE IF job = "refill" THEN "cron_daily"
    ELSE "interval"

\* The trigger add_*_job gives a job; "none": add_bond_selection_job with an
\* unknown schedule type removes the old job and adds nothing.
trigger_of(job, schedule_type) ==
    IF job = "bond_selection"
    THEN CASE schedule_type = "daily" -> "cron_daily"
           [] schedule_type = "weekly" -> "cron_weekly"
           [] schedule_type = "monthly" -> "cron_monthly"
           [] OTHER -> "none"
    ELSE IF job = "refill" THEN "cron_daily"
    ELSE "interval"

\* "now = now()" and "now = now().time()" in _execute_qmt_health_check and
\* _is_trading_time: the assignment makes now a local name of the function,
\* so the call on the right side reads the local before it is bound.
LocalNowUnbound == TRUE

\* _is_trading_time: "True", "False" or the exception it raises.
is_trading_time(trading_day, in_window) ==
    IF ~trading_day THEN "False"
    ELSE IF LocalNowUnbound THEN "UnboundLocalError"
    ELSE IF in_window THEN "True" ELSE "False"

\* try: callback() except Exception: log
guarded_callback(raises) == IF raises THEN "caught" ELSE "invoked"

\* A wrapper that calls the callback outside any try.
execute_refill_no_try(trading_day, raises) ==
    IF ~trading_day THEN "skipped"
    ELSE IF raises THEN "escaped" ELSE "invoked"

\* The five wrappers: what a fire did.
execute_bond_selection(trading_day, raises) ==
    IF ~trading_day THEN "skipped" ELSE guarded_callback(raises)

execute_stop_profit_loss(trading_day, in_window, raises) ==
    LET t == is_trading_time(trading_day, in_window)
    IN  IF t = "UnboundLocalError" THEN "wrapper_raised"
        ELSE IF t = "False" THEN "skipped"
        ELSE guarded_callback(raises)

execute_qmt_health_check(raises) ==
    IF LocalNowUnbound THEN "wrapper_raised" ELSE guarded_callback(raises)

execute_token_refresh(raises) == guarded_callback(raises)

execute_refill(trading_day, raises) ==
    IF ~trading_day THEN "skipped" ELSE guarded_callback(raises)

fire_outcome(job, trading_day, in_window, raises) ==
    CASE job = "bond_selection" -> execute_bond_selection(trading_day, raises)
      [] job = "stop_profit_loss" ->
             execute_stop_profit_loss(trading_day, in_window, raises)
      [] job = "qmt_health_check" -> execute_qmt_health_check(raises)
      [] job = "token_refresh" -> execute_token_refresh(raises)
      [] job = "refill" -> execute_refill(trading_day, raises)

InitScheduler ==
    /\ position_records = EmptyLedger
    /\ db_call = NoCall
    /\ qmt = QmtInit
    /\ ec = EnsureIdle
    /\ sp = StopIdle
    /\ df = DiffIdle
    /\ api = ApiInit
    /\ clock = 0
    /\ rcg = RcgInit
    /\ cfg = CfgNone
    /\ now = NowInit
    /\ refill_queue = <<>>
    /\ cy = CycleIdle
    /\ rf = RefillIdle
    /\ gh = GhostInit
    /\ pk = PickIdle
    /\ tr = TradeIdle
    /\ gt = GateIdle
    /\ th = ThreadsInit
    /\ tx = TxInit
    /\ bq = BatchInit
    /\ hl = HealthInit
    /\ sch = SchedulerInit
    /\ dc = SessionInit

\* add_*_job: remove_job(id), then add_job(..., replace_existing=True).
AddJob ==
    /\ \E job \in JobIds, schedule_type \in ScheduleTypes :
        LET trigger == trigger_of(job, schedule_type)
            others == DOMAIN sch.jobs \ {job}
        IN  sch' = [sch EXCEPT
                       !.jobs = [j \in (IF trigger = "none" THEN others
                                        ELSE others \cup {job}) |->
                                    IF j = job THEN trigger ELSE sch.jobs[j]],
                       !.fire = NoFire]
    /\ UNCHANGED notSch

\* remove_job(id)
RemoveJob ==
    /\ \E job \in DOMAIN sch.jobs :
        sch' = [sch EXCEPT
                   !.jobs = [j \in DOMAIN sch.jobs \ {job} |-> sch.jobs[j]],
                   !.fire = NoFire]
    /\ UNCHANGED notSch

\* The trigger of a registered job fires: its wrapper runs.
FireJob ==
    /\ \E job \in DOMAIN sch.jobs, trading_day \in BOOLEAN,
          in_window \in BOOLEAN, raises \in BOOLEAN :
        LET outcome == fire_outcome(job, trading_day, in_window, raises)
        IN  sch' = [sch EXCEPT
                       !.fire = [job |-> job, trading_day |-> trading_day,
                                 in_window |-> in_window, raises |-> raises,
                                 outcome |-> outcome],
                       !.raised = IF outcome \in {"caught", "escaped"}
                                  THEN @ \cup {job} ELSE @]
    /\ UNCHANGED notSch

NextScheduler ==
    \/ AddJob
    \/ RemoveJob
    \/ FireJob

SpecScheduler == InitScheduler /\ [][NextScheduler]_vars

\* The gate a wrapper puts before its callback is open for this fire.
GateOpen(f) ==
    CASE f.job \in {"bond_selection", "refill"} -> f.trading_day
      [] f.job = "stop_profit_loss" -> f.trading_day /\ f.in_window
      [] OTHER -> TRUE

\* C12: an exception raised by the callback of a job never leaves the
\* wrapper (the fire ends as caught), the job of that fire is still
\* registered, a later fire of a job whose callback raised before calls the
\* callback again when its gate is open, and no fire changes the registered
\* jobs or their triggers.
C12_CallbackErrorsCaught ==
    /\ [](/\ sch.fire.outcome # "escaped"
          /\ sch.fire.outcome = "caught" => sch.fire.job \in DOMAIN sch.jobs
          /\ (sch.fire.job \in sch.raised /\ GateOpen(sch.fire)) =>
                 sch.fire.outcome \in {"invoked", "caught"})
    /\ [][sch'.fire # NoFire => sch'.jobs = sch.jobs]_vars

\* C12 witness: the callback of a registered job raised in an earlier fire
\* and a later fire of that job has called it again.
C12_Witness ==
    /\ sch.fire.job \in sch.raised
    /\ sch.fire.job \in DOMAIN sch.jobs
    /\ sch.fire.outcome = "invoked"

\* C13: a fire of the risk-check job on a trading day inside a trading
\* window calls the stop-check callback, any other fire of it skips the
\* callback, and the job stays registered.
C13_RiskCheckGated ==
    sch.fire.job = "stop_profit_loss" =>
        /\ (sch.fire.trading_day /\ sch.fire.in_window) =>
               sch.fire.outcome \in {"invoked", "caught"}
        /\ ~(sch.fire.trading_day /\ sch.fire.in_window) =>
               sch.fire.outcome = "skipped"
        /\ "stop_profit_loss" \in DOMAIN sch.jobs

\* C27: every fire of the registered health-check job calls the health-check
\* callback.
C27_HealthCheckCallbackInvoked ==
    sch.fire.job = "qmt_health_check" =>
        sch.fire.outcome \in {"invoked", "caught"}

\* C14: when execute_scheduled_refill returns from its buy pass, the queue
\* holds no row of the current date, whatever the buys did.
C14_QueueClearedAfterBuyPass ==
    [][(rf.pc \in {"buy", "clear"} /\ rf'.pc = "idle")
           => get_refill_queue(refill_queue', now'.date) = <<>>]_vars

\* C14 witness: a refill has cleared rows of today although none of its buys
\* was placed and accepted (the ledger is still empty).
C14_Witness ==
    /\ gh.queue.name = "clear"
    /\ gh.queue.dates # {}
    /\ position_records = EmptyLedger
    /\ get_refill_queue(refill_queue, now.date) = <<>>

(***************************************************************************)
(* Single calls of the per-instrument routines _sell_bond,                 *)
(* _check_single_position and _buy_bond, for every ledger, holding, quote  *)
(* and broker answer of a small set.  Money is in tenths of a yuan here    *)
(* (a price of 105.3 is 1053).                                             *)
(***************************************************************************)
TradePrices == {0, 900, 1000, 1053, 1100}
TradeCloses == {0, 1000}
TradeAmountNums == {0, 10529, 10530, 100000, 210000}
MaxBondCount == 3
TradeAmounts == [num : TradeAmountNums, den : 1..MaxBondCount]

\* The cycle a call is made from: its snapshot of the ledger and holdings.
TradeCycle(t) ==
    [CycleIdle EXCEPT
        !.kind = IF t.routine = "check_single_position" THEN "risk"
                 ELSE "rebalance",
        !.project_records = t.position_records,
        !.positions = t.positions,
        !.ensured = TRUE]

\* The calls the cycles make: a sell or a check for a code that has a
\* project record and a position, a buy for any code with some amount.
TradeCalls ==
    {t \in [pc : {"call"}, routine : {"sell_bond", "check_single_position"},
            stock_code : Codes, position_records : Ledgers,
            positions : PositionSets, amount : {NoAmount},
            ensure_ok : BOOLEAN, price : TradePrices,
            last_close : TradeCloses, suspended : BOOLEAN,
            order_id : OrderIds, result : {NoResult}] :
        /\ t.stock_code \in DOMAIN t.position_records
        /\ t.stock_code \in DOMAIN t.positions}
    \cup [pc : {"call"}, routine : {"buy_bond"}, stock_code : {1},
          position_records : {EmptyLedger}, positions : {NoPositions},
          amount : TradeAmounts, ensure_ok : BOOLEAN, price : TradePrices,
          last_close : {0}, suspended : BOOLEAN, order_id : OrderIds,
          result : {NoResult}]

InitTrade ==
    /\ position_records = EmptyLedger
    /\ db_call = NoCall
    /\ qmt = QmtInit
    /\ ec = EnsureIdle
    /\ sp = StopIdle
    /\ df = DiffIdle
    /\ api = ApiInit
    /\ clock = 0
    /\ rcg = RcgInit
    /\ cfg = [strategy |-> TRUE, buy_amount_type |-> "fixed",
              fixed_amount |-> 5000, stop_profit_ratio |-> 1,
              stop_loss_ratio |-> 1]
    /\ now = NowInit
    /\ refill_queue = <<>>
    /\ cy = CycleIdle
    /\ rf = RefillIdle
    /\ gh = GhostInit
    /\ pk = PickIdle
    /\ tr \in TradeCalls
    /\ gt = GateIdle
    /\ th = ThreadsInit
    /\ tx = TxInit
    /\ bq = BatchInit
    /\ hl = HealthInit
    /\ sch = SchedulerInit
    /\ dc = SessionInit

SellBondCall ==
    /\ tr.pc = "call"
    /\ tr.routine = "sell_bond"
    /\ tr' = [tr EXCEPT
                 !.pc = "done",
                 !.result = sell_bond(tr.position_records, TradeCycle(tr),
                                      tr.stock_code, tr.ensure_ok, tr.price,
                                      tr.suspended,
                                      order_accepted(tr.order_id))]
    /\ UNCHANGED notTr

CheckSinglePositionCall ==
    /\ tr.pc = "call"
    /\ tr.routine = "check_single_position"
    /\ tr' = [tr EXCEPT
                 !.pc = "done",
                 !.result = check_single_position(
                                tr.position_records, TradeCycle(tr),
                                tr.stock_code, tr.ensure_ok, tr.price,
                                tr.last_close, tr.suspended,
                                order_accepted(tr.order_id))]
    /\ UNCHANGED notTr

BuyBondCall ==
    /\ tr.pc = "call"
    /\ tr.routine = "buy_bond"
    /\ tr' = [tr EXCEPT
                 !.pc = "done",
                 !.result = buy_bond(tr.position_records, "rebalance", TRUE,
                                     tr.stock_code, tr.amount, tr.ensure_ok,
                                     tr.price,
                                     order_accepted(tr.order_id))]
    /\ UNCHANGED notTr

NextTrade ==
    \/ SellBondCall
    \/ CheckSinglePositionCall
    \/ BuyBondCall

SpecTrade == InitTrade /\ [][NextTrade]_vars

\* C15: a call that meets a quoted last price <= 0 places no order, leaves
\* the ledger as it was and reports no sold item for the refill queue.
C15_NoPriceNoOrder ==
    (tr.pc = "done" /\ tr.price <= 0) =>
        /\ tr.result.order = NoOrder
        /\ tr.result.op = NoOp
        /\ tr.result.position_records = tr.position_records
        /\ tr.result.sold = <<>>

\* C15 witness: a rebalance sell with a position, a record and a healthy
\* connection has fetched a quote without a price and skipped the sell.
C15_Witness ==
    /\ tr.pc = "done"
    /\ tr.routine = "sell_bond"
    /\ tr.ensure_ok
    /\ tr.price = 0
    /\ tr.positions[tr.stock_code] > 0
    /\ tr.result.outcome = "no_price"

C20_SuspendedNoOrder ==
    (tr.pc = "done" /\ tr.suspended) =>
        /\ tr.result.order = NoOrder
        /\ tr.result.position_records = tr.position_records

\* C29: a call whose order came back with an order id <= 0 leaves the
\* ledger as it was, reports no sold item for the refill queue and sends the
\* trade-error notification; a call that changed the ledger had an order id
\* above 0.
C29_RejectedOrderLeavesLedger ==
    tr.pc = "done" =>
        /\ (tr.result.order # NoOrder /\ tr.order_id <= 0) =>
               /\ tr.result.position_records = tr.position_records
               /\ tr.result.sold = <<>>
               /\ tr.result.notice = "send_trade_error_notification"
        /\ tr.result.position_records # tr.position_records =>
               tr.order_id > 0

\* C29 witness: a triggered stop order came back with order id 0.
C29_Witness ==
    /\ tr.pc = "done"
    /\ tr.routine = "check_single_position"
    /\ tr.result.order.side = "sell"
    /\ tr.order_id = 0
    /\ tr.result.outcome = "rejected"
    /\ tr.result.notice = "send_trade_error_notification"

(***************************************************************************)
(* Api.start_trading / stop_trading and the market-data subscriptions of   *)
(* QMTService.connect / disconnect.  The data service hands out a new      *)
(* subscription number on every subscribe_whole_quote that succeeds and    *)
(* keeps the subscription until unsubscribe_quote is called with it.       *)
(***************************************************************************)
MaxSubId == 3
MaxSessionTicks == 4

\* What subscribe_whole_quote can do: return a number > 0, return 0, raise.
SubscribeReplies == {"id", "refused", "raises"}
\* What unsubscribe_quote can do.
UnsubscribeReplies == {"ok", "raises"}

\* QMTService.connect, lines 180-190: after a successful connect the
\* whole-market subscription is requested and its number stored over the
\* number held before.
connect_subscribe(d, outcome, sub) ==
    IF outcome # "ok" THEN d
    ELSE CASE sub = "id" ->
                [d EXCEPT !.whole_quote_sub_id = d.next_sub_id,
                          !.standing = @ \cup {d.next_sub_id},
                          !.next_sub_id = @ + 1]
           [] sub = "refused" -> [d EXCEPT !.whole_quote_sub_id = 0]
           [] OTHER -> d

\* QMTService.disconnect, lines 214-230: inside "if self.trader", a held
\* number that is truthy is unsubscribed and forgotten (kept when the call
\* raises), then the per-instrument subscriptions are unsubscribed.
disconnect_unsubscribe(d, q, unsub) ==
    IF ~q.trader THEN d
    ELSE LET held == d.whole_quote_sub_id \notin {None, 0}
         IN  [d EXCEPT
                !.whole_quote_sub_id =
                    IF held /\ unsub = "ok" THEN None ELSE @,
                !.standing =
                    IF held /\ unsub = "ok"
                    THEN (@ \ {d.whole_quote_sub_id}) \ d.stock_sub_ids
                    ELSE @ \ d.stock_sub_ids,
                !.stock_sub_ids = {}]

InitSession ==
    /\ position_records = EmptyLedger
    /\ db_call = NoCall
    /\ qmt = QmtInit
    /\ ec = EnsureIdle
    /\ sp = StopIdle
    /\ df = DiffIdle
    /\ api = ApiInit
    /\ clock = 0
    /\ rcg = RcgInit
    /\ cfg = CfgNone
    /\ now = NowInit
    /\ refill_queue = <<>>
    /\ cy = CycleIdle
    /\ rf = RefillIdle
    /\ gh = GhostInit
    /\ pk = PickIdle
    /\ tr = TradeIdle
    /\ gt = GateIdle
    /\ th = ThreadsInit
    /\ tx = TxInit
    /\ bq = BatchInit
    /\ hl = HealthInit
    /\ sch = SchedulerInit
    /\ dc = SessionInit

\* Api.start_trading: no test of _running; pre_ok: strategy and
\* configuration pass the checks of lines 481-494.
SessionStartTrading ==
    \E pre_ok \in BOOLEAN, outcome \in ConnectOutcomes,
       sub \in SubscribeReplies :
        /\ dc.next_sub_id <= MaxSubId
        /\ IF ~pre_ok
           THEN /\ UNCHANGED <<qmt, api>>
                /\ dc' = [dc EXCEPT !.last = "start_trading"]
           ELSE /\ qmt' = qmt_connect(qmt, outcome)
                /\ dc' = [connect_subscribe(dc, outcome, sub)
                            EXCEPT !.last = "start_trading"]
                /\ api' = IF outcome = "ok"
                          THEN [api EXCEPT !.running = TRUE,
                                           !.qmt_reconnect_count = 0]
                          ELSE api
        /\ UNCHANGED <<clock, rcg, notSession>>

\* Api.stop_trading: scheduler.stop(), qmt.disconnect(), the reconnect
\* state reset, _running cleared.
SessionStopTrading ==
    \E unsub \in UnsubscribeReplies :
        /\ qmt' = qmt_disconnect(qmt)
        /\ dc' = [disconnect_unsubscribe(dc, qmt, unsub)
                    EXCEPT !.last = "stop_trading"]
        /\ api' = [api EXCEPT !.qmt_reconnect_count = 0,
                              !.qmt_last_health_check_time = None,
                              !.qmt_last_reconnect_time = None,
                              !.running = FALSE]
        /\ UNCHANGED <<clock, rcg, notSession>>

\* Api._qmt_health_check_callback with the subscriptions: a reconnection
\* attempt is a disconnect followed by a connect.
SessionHealthCheck ==
    \E config_ok \in BOOLEAN, outcome \in ConnectOutcomes,
       reply \in AssetReplies, sub \in SubscribeReplies,
       unsub \in UnsubscribeReplies :
        /\ clock < MaxSessionTicks
        /\ dc.next_sub_id <= MaxSubId
        /\ clock' = clock + 1
        /\ LET r == qmt_health_check_callback(api, qmt, rcg,
                         clock' * HealthInterval, config_ok, outcome, reply)
           IN  /\ api' = r.api
               /\ qmt' = r.qmt
               /\ rcg' = r.rcg
               /\ dc' = [(IF r.rcg.attempts > rcg.attempts
                          THEN connect_subscribe(
                                   disconnect_unsubscribe(dc, qmt, unsub),
                                   outcome, sub)
                          ELSE dc)
                            EXCEPT !.last = "health_check"]
        /\ UNCHANGED notSession

\* TraderCallback.on_disconnected
SessionOnDisconnected ==
    /\ qmt.connected
    /\ qmt' = [qmt EXCEPT !.connected = FALSE]
    /\ dc' = [dc EXCEPT !.last = "on_disconnected"]
    /\ UNCHANGED <<api, clock, rcg, notSession>>

NextSession ==
    \/ SessionStartTrading
    \/ SessionStopTrading
    \/ SessionHealthCheck
    \/ SessionOnDisconnected

SpecSession == InitSession /\ [][NextSession]_vars

\* C17: when stop_trading has just run, the reconnect counter is 0, both
\* timestamps are cleared, is_connected is false and no market-data
\* subscription is left standing.
C17_StopClearsSession ==
    dc.last = "stop_trading" =>
        /\ api.qmt_reconnect_count = 0
        /\ api.qmt_last_health_check_time = None
        /\ api.qmt_last_reconnect_time = None
        /\ ~is_connected(qmt)
        /\ dc.standing = {}


(***************************************************************************)
(* The conditions execute_rebalance and execute_stop_profit_loss_check     *)
(* test before they do anything.  gt lists the starts made so far, each    *)
(* with the conditions it met; the cycles then run as in Spec.             *)
(***************************************************************************)
MaxStarts == 2

InitGate ==
    /\ position_records \in Ledgers
    /\ db_call = NoCall
    /\ qmt = qmt_connect(QmtInit, "ok")
    /\ ec = EnsureIdle
    /\ sp = StopIdle
    /\ df = DiffIdle
    /\ api = ApiInit
    /\ clock = 0
    /\ rcg = RcgInit
    /\ cfg \in Configs
    /\ now = NowInit
    /\ refill_queue = <<>>
    /\ cy = CycleIdle
    /\ rf = RefillIdle
    /\ gh = GhostInit
    /\ pk = PickIdle
    /\ tr = TradeIdle
    /\ gt = GateIdle
    /\ th = ThreadsInit
    /\ tx = TxInit
    /\ bq = BatchInit
    /\ hl = HealthInit
    /\ sch = SchedulerInit
    /\ dc = SessionInit

\* A fire of the rebalance job: execute_rebalance starts.
GateRebalance ==
    /\ cy.pc = "idle"
    /\ rf.pc = "idle"
    /\ Len(gt) < MaxStarts
    /\ \E replies \in EnsureReplies, target_bonds \in TargetLists,
          positions \in PositionSets :
        /\ LET r == rebalance_start(position_records, cfg, qmt, replies,
                                    target_bonds, positions)
           IN  cy' = r.cy /\ gh' = r.gh
        /\ gt' = Append(gt, [routine |-> "execute_rebalance",
                             strategy |-> cfg.strategy,
                             connected |-> is_connected(qmt),
                             ensure_ok |-> ensure_connected(qmt, replies),
                             target_empty |-> target_bonds = <<>>,
                             ledger_empty |-> position_records = EmptyLedger])
    /\ UNCHANGED <<position_records, qmt, cfg, now, refill_queue, rf, notGt>>

\* A fire of the risk-check job: execute_stop_profit_loss_check starts.
GateRisk ==
    /\ cy.pc = "idle"
    /\ rf.pc = "idle"
    /\ Len(gt) < MaxStarts
    /\ \E positions \in PositionSets :
        /\ LET r == risk_start(position_records, cfg, qmt, positions)
           IN  cy' = r.cy /\ gh' = r.gh
        /\ gt' = Append(gt, [routine |-> "execute_stop_profit_loss_check",
                             strategy |-> cfg.strategy,
                             connected |-> is_connected(qmt),
                             ensure_ok |-> FALSE,
                             target_empty |-> FALSE,
                             ledger_empty |-> position_records = EmptyLedger])
    /\ UNCHANGED <<position_records, qmt, cfg, now, refill_queue, rf, notGt>>

NextGate ==
    \/ GateRebalance
    \/ RebalanceSell
    \/ RebalanceAmount
    \/ RebalanceBuy
    \/ GateRisk
    \/ RiskCheck
    \/ RiskEnqueue
    \/ SessionUp
    \/ SessionDown

SpecGate == InitGate /\ [][NextGate]_vars

\* The last start made, and whether a start is the newest entry of gt'.
LastStart(g) == g[Len(g)]
RebalanceStopped(g) ==
    /\ g.routine = "execute_rebalance"
    /\ ~g.strategy \/ ~g.connected \/ ~g.ensure_ok \/ g.target_empty
RiskStopped(g) ==
    /\ g.routine = "execute_stop_profit_loss_check"
    /\ ~g.strategy \/ ~g.connected \/ g.ledger_empty

\* C18: a rebalance started without a strategy, without a connected and
\* healthy session, or with an empty target list places no order, leaves the
\* ledger as it was and leaves the service idle, ready for the next fire.
C18_RebalanceGates ==
    /\ [](gt # <<>> /\ RebalanceStopped(LastStart(gt)) =>
            /\ gh.order = NoOrder
            /\ gh.op = NoOp
            /\ cy = CycleIdle
            /\ rf.pc = "idle")
    /\ [][(Len(gt') > Len(gt) /\ RebalanceStopped(LastStart(gt'))) =>
            /\ position_records' = position_records
            /\ refill_queue' = refill_queue]_vars

\* C18 witness: a rebalance met an empty target list with a strategy and a
\* healthy session, and the rebalance fired next is selling a held bond.
C18_Witness ==
    /\ Len(gt) = 2
    /\ RebalanceStopped(gt[1])
    /\ gt[1].strategy /\ gt[1].connected /\ gt[1].ensure_ok
    /\ ~gt[1].ledger_empty
    /\ gt[2].routine = "execute_rebalance"
    /\ ~RebalanceStopped(gt[2])
    /\ gh.order.side = "sell"
    /\ gh.order.by = "rebalance"

\* C19: a risk check started without a strategy, without a connected
\* session or with an empty ledger asks for no positions and no quote,
\* places no order and leaves ledger and refill queue as they were.
C19_RiskCheckGates ==
    /\ [](gt # <<>> /\ RiskStopped(LastStart(gt)) =>
            /\ gh.op = NoOp
            /\ gh.order = NoOrder
            /\ cy = CycleIdle)
    /\ [][(Len(gt') > Len(gt) /\ RiskStopped(LastStart(gt'))) =>
            /\ position_records' = position_records
            /\ refill_queue' = refill_queue]_vars

\* C19 witness: a risk check sold the only recorded bond and queued its
\* refill; the risk check fired next met an empty ledger.
C19_Witness ==
    /\ Len(gt) = 2
    /\ gt[1].routine = "execute_stop_profit_loss_check"
    /\ ~RiskStopped(gt[1])
    /\ RiskStopped(gt[2])
    /\ gt[2].strategy /\ gt[2].connected /\ gt[2].ledger_empty
    /\ refill_queue # <<>>


(***************************************************************************)
(* Cycles on worker threads.  The scheduler runs each job on a thread of   *)
(* its pool and Api.trigger_rebalance starts a thread of its own; nothing  *)
(* in AutoTradeService, QMTService or Database takes a lock.  Each worker  *)
(* runs the routines of the cycles above, one instrument per step, on the  *)
(* snapshots it took when it started.                                      *)
(***************************************************************************)
MaxRuns == 1

RebalanceWorkers == {"job_rebalance", "manual"}

InitThreads ==
    /\ position_records \in Ledgers
    /\ db_call = NoCall
    /\ qmt = qmt_connect(QmtInit, "ok")
    /\ ec = EnsureIdle
    /\ sp = StopIdle
    /\ df = DiffIdle
    /\ api = [ApiInit EXCEPT !.running = TRUE]
    /\ clock = 0
    /\ rcg = RcgInit
    /\ cfg \in Configs \ {CfgNone}
    /\ now = NowInit
    /\ refill_queue = <<>>
    /\ cy = CycleIdle
    /\ rf = RefillIdle
    /\ gh = GhostInit
    /\ pk = PickIdle
    /\ tr = TradeIdle
    /\ gt = GateIdle
    /\ th = [ThreadsInit EXCEPT
                !.account = [c \in DOMAIN position_records |->
                                 position_records[c].volume],
                !.base = position_records]
    /\ tx = TxInit
    /\ bq = BatchInit
    /\ hl = HealthInit
    /\ sch = SchedulerInit
    /\ dc = SessionInit

notThreads == <<db_call, qmt, ec, pureVars, reconnVars, cfg, now, cy, rf, gh, pk, tr, gt, tx, bq, hl, schedVars>>

\* The account after a sell order the broker took: the volume leaves the
\* available holdings when they cover it.
account_after_sell(account, stock_code, volume) ==
    IF stock_code \in DOMAIN account /\ volume <= account[stock_code]
    THEN [account EXCEPT ![stock_code] = @ - volume]
    ELSE account

\* execute_rebalance starts on the scheduler's thread (the rebalance job
\* fires) or on the thread Api.trigger_rebalance starts while _running.
ThreadRebalanceStart ==
    \E w \in RebalanceWorkers, replies \in EnsureReplies,
       target_bonds \in TargetLists :
        /\ th.w[w].pc = "idle"
        /\ th.runs[w] < MaxRuns
        /\ w = "manual" => api.running
        /\ LET r == rebalance_start(position_records, cfg, qmt, replies,
                                    target_bonds, th.account)
           IN  th' = [th EXCEPT !.w[w] = r.cy, !.runs[w] = @ + 1]
        /\ UNCHANGED <<position_records, refill_queue, notThreads>>

\* One iteration of step 5 on a worker: _sell_bond for a code of its
\* to_sell_codes, with the positions and the project record it read at
\* its start.
ThreadRebalanceSell ==
    \E w \in RebalanceWorkers :
        /\ th.w[w].kind = "rebalance"
        /\ th.w[w].pc = "sell"
        /\ \E stock_code \in th.w[w].to_sell_codes, reply \in ProbeReplies,
              price \in SellPrices, suspended \in BOOLEAN,
              accepted \in BOOLEAN :
            LET c == th.w[w]
                r == sell_bond(position_records, c, stock_code,
                               health_check(qmt, reply), price, suspended,
                               accepted)
                rest == c.to_sell_codes \ {stock_code}
                taken == r.order.side = "sell" /\ accepted
            IN  /\ position_records' = r.position_records
                /\ th' = [th EXCEPT
                             !.w[w] = [c EXCEPT
                                 !.to_sell_codes = rest,
                                 !.project_records = Restrict(@, rest),
                                 !.positions = Restrict(@, rest),
                                 !.ensured = r.ensured,
                                 !.pc = IF rest = {} THEN "amount"
                                        ELSE "sell"],
                             !.account =
                                 IF taken
                                 THEN account_after_sell(@, stock_code,
                                                         r.order.volume)
                                 ELSE @,
                             !.sold[stock_code] =
                                 IF taken THEN @ + r.order.volume ELSE @]
        /\ UNCHANGED <<refill_queue, notThreads>>

\* Step 6 on a worker: _calculate_buy_amount(len(to_buy)).
ThreadRebalanceAmount ==
    \E w \in RebalanceWorkers, cash \in CashReplies :
        /\ th.w[w].kind = "rebalance"
        /\ th.w[w].pc = "amount"
        /\ LET c == th.w[w]
               n == Cardinality(c.to_buy)
           IN  th' = [th EXCEPT !.w[w] =
                         IF c.to_buy = {} THEN CycleIdle
                         ELSE [c EXCEPT
                                  !.pc = "buy",
                                  !.buy_amount = calculate_buy_amount(
                                      cfg, n, is_connected(qmt), cash)]]
        /\ UNCHANGED <<position_records, refill_queue, notThreads>>

\* One iteration of step 7 on a worker: _buy_bond for a code of its to_buy.
ThreadRebalanceBuy ==
    \E w \in RebalanceWorkers :
        /\ th.w[w].kind = "rebalance"
        /\ th.w[w].pc = "buy"
        /\ \E stock_code \in th.w[w].to_buy, reply \in ProbeReplies,
              price \in BuyPrices, accepted \in BOOLEAN :
            LET c == th.w[w]
                r == buy_bond(position_records, c.kind, c.ensured,
                              stock_code, c.buy_amount,
                              health_check(qmt, reply), price, accepted)
                rest == c.to_buy \ {stock_code}
            IN  /\ WithinBound(r.position_records)
                /\ position_records' = r.position_records
                /\ th' = [th EXCEPT !.w[w] =
                             IF rest = {} THEN CycleIdle
                             ELSE [c EXCEPT !.to_buy = rest,
                                            !.ensured = r.ensured]]
        /\ UNCHANGED <<refill_queue, notThreads>>

\* execute_stop_profit_loss_check starts on the scheduler's thread.
ThreadRiskStart ==
    /\ th.w["job_risk"].pc = "idle"
    /\ th.runs["job_risk"] < MaxRuns
    /\ LET r == risk_start(position_records, cfg, qmt, th.account)
       IN  th' = [th EXCEPT !.w["job_risk"] = r.cy,
                            !.runs["job_risk"] = @ + 1]
    /\ UNCHANGED <<position_records, refill_queue, notThreads>>

\* One iteration of the risk check's loop: _check_single_position with the
\* position and the project record read at its start.
ThreadRiskCheck ==
    /\ th.w["job_risk"].kind = "risk"
    /\ th.w["job_risk"].pc = "check"
    /\ \E stock_code \in DOMAIN th.w["job_risk"].project_records,
          reply \in ProbeReplies, price \in QuotePrices,
          last_close \in LastCloses, suspended \in BOOLEAN,
          accepted \in BOOLEAN :
        LET c == th.w["job_risk"]
            r == check_single_position(position_records, c, stock_code,
                     health_check(qmt, reply), price, last_close,
                     suspended, accepted)
            rest == DOMAIN c.project_records \ {stock_code}
            sold == c.sold_items \o r.sold
            taken == r.order.side = "sell" /\ accepted
        IN  /\ position_records' = r.position_records
            /\ th' = [th EXCEPT
                         !.w["job_risk"] =
                             IF rest = {} /\ sold = <<>> THEN CycleIdle
                             ELSE [c EXCEPT
                                      !.project_records = Restrict(@, rest),
                                      !.positions = Restrict(@, rest),
                                      !.sold_items = sold,
                                      !.ensured = r.ensured,
                                      !.pc = IF rest = {} THEN "enqueue"
                                             ELSE "check"],
                         !.account =
                             IF taken
                             THEN account_after_sell(@, stock_code,
                                                     r.order.volume)
                             ELSE @,
                         !.sold[stock_code] =
                             IF taken THEN @ + r.order.volume ELSE @]
    /\ UNCHANGED <<refill_queue, notThreads>>

\* _add_to_refill_queue(sold_items) at the end of the risk check.
ThreadRiskEnqueue ==
    /\ th.w["job_risk"].kind = "risk"
    /\ th.w["job_risk"].pc = "enqueue"
    /\ refill_queue' = IF past_deadline(now.tod) THEN refill_queue
                       ELSE add_all(refill_queue, now,
                                    th.w["job_risk"].sold_items)
    /\ th' = [th EXCEPT !.w["job_risk"] = CycleIdle]
    /\ UNCHANGED <<position_records, notThreads>>

NextThreads ==
    \/ ThreadRebalanceStart
    \/ ThreadRebalanceSell
    \/ ThreadRebalanceAmount
    \/ ThreadRebalanceBuy
    \/ ThreadRiskStart
    \/ ThreadRiskCheck
    \/ ThreadRiskEnqueue

SpecThreads == InitThreads /\ [][NextThreads]_vars

\* The workers that are inside a cycle and have passed a connection check.
PastGate == {w \in Workers : th.w[w].pc # "idle" /\ th.w[w].ensured}

\* C21: at most one worker at a time is inside a cycle past the
\* ensure_connected gate of the session.
C21_OnePathPastGate == Cardinality(PastGate) <= 1

\* C23: when a rebalance and a risk check have run (and no second
\* rebalance), for every code the sell orders the two runs have placed add
\* up to no more than the ledger volume the code had before they started.
C23_SellsWithinLedger ==
    (th.runs["job_rebalance"] = 0 \/ th.runs["manual"] = 0) =>
        \A c \in Codes : th.sold[c] <= VolumeOf(th.base, c)

(***************************************************************************)
(* Database: add_position_record and update_position_record issued by two  *)
(* callers at the same time.  Each call opens a session of its own, reads  *)
(* the row with a SELECT, and writes what it computed from the row it read *)
(* with the INSERT, UPDATE or DELETE of its commit; the table has no       *)
(* unique constraint on stock_code.  A row is [id, stock_code, volume].    *)
(***************************************************************************)
TxCallers == {1, 2}
TxCode == 1
TxVolumes == {LotSize, 2 * LotSize}
TxOps == {"add_position_record", "update_position_record"}
NoRow == [id |-> None, stock_code |-> 0, volume |-> 0]

\* The table that holds a ledger, one row per code.
TableOf(records) ==
    {[id |-> c, stock_code |-> c, volume |-> records[c].volume] :
         c \in DOMAIN records}

\* session.query(PositionRecordTable).filter_by(stock_code=...).first()
query_first(rows, stock_code) ==
    LET found == {r \in rows : r.stock_code = stock_code}
    IN  IF found = {} THEN NoRow
        ELSE CHOOSE r \in found : \A q \in found : r.id <= q.id

\* UPDATE ... SET volume = v WHERE id = row.id; a row that is gone is left
\* gone (the session raises).
update_row(rows, row, v) ==
    {IF r.id = row.id THEN [r EXCEPT !.volume = v] ELSE r : r \in rows}

\* add_position_record after its SELECT: the commit of the branch taken on
\* the row the call has seen.
commit_add(t, call) ==
    IF call.seen = NoRow
    THEN [t EXCEPT !.rows = @ \cup {[id |-> t.next_id,
                                    stock_code |-> call.stock_code,
                                    volume |-> call.volume]},
                   !.next_id = @ + 1]
    ELSE [t EXCEPT !.rows = update_row(@, call.seen,
                                       call.seen.volume + call.volume)]

\* update_position_record after its SELECT.
commit_update(t, call) ==
    IF call.seen = NoRow THEN t
    ELSE LET v == Max(0, call.seen.volume - call.volume)
         IN  IF v <= 0
             THEN [t EXCEPT !.rows = {r \in @ : r.id # call.seen.id}]
             ELSE [t EXCEPT !.rows = update_row(@, call.seen, v)]

\* The calls two callers can issue for one code: a buy upsert with a sell
\* decrement, or two buy upserts.
TxCallPairs ==
    {c \in [TxCallers -> [op : TxOps, stock_code : {TxCode},
                          volume : TxVolumes, pc : {"select"},
                          seen : {NoRow}]] :
        \E k \in TxCallers : c[k].op = "add_position_record"}

TxLedgers ==
    {EmptyLedger} \cup {[c \in {TxCode} |-> [volume |-> v]] : v \in TxVolumes}

InitTx ==
    /\ position_records = EmptyLedger
    /\ db_call = NoCall
    /\ qmt = QmtInit
    /\ ec = EnsureIdle
    /\ sp = StopIdle
    /\ df = DiffIdle
    /\ api = ApiInit
    /\ clock = 0
    /\ rcg = RcgInit
    /\ cfg = CfgNone
    /\ now = NowInit
    /\ refill_queue = <<>>
    /\ cy = CycleIdle
    /\ rf = RefillIdle
    /\ gh = GhostInit
    /\ pk = PickIdle
    /\ tr = TradeIdle
    /\ gt = GateIdle
    /\ th = ThreadsInit
    /\ \E records \in TxLedgers, calls \in TxCallPairs :
           tx = [rows |-> TableOf(records), next_id |-> NCodes + 1,
                 base |-> records, calls |-> calls]
    /\ bq = BatchInit
    /\ hl = HealthInit
    /\ sch = SchedulerInit
    /\ dc = SessionInit

notTx == <<ledgerVars, ensureVars, pureVars, reconnVars, tradeVars, pk, tr, gt, th, bq, hl, schedVars>>

\* The SELECT of a call.
TxSelect ==
    \E k \in TxCallers :
        /\ tx.calls[k].pc = "select"
        /\ tx' = [tx EXCEPT
                     !.calls[k].seen = query_first(tx.rows,
                                                   tx.calls[k].stock_code),
                     !.calls[k].pc = "commit"]
        /\ UNCHANGED notTx

\* The commit of an add_position_record.
TxCommitAdd ==
    \E k \in TxCallers :
        /\ tx.calls[k].pc = "commit"
        /\ tx.calls[k].op = "add_position_record"
        /\ tx' = [commit_add(tx, tx.calls[k]) EXCEPT !.calls[k].pc = "done"]
        /\ UNCHANGED notTx

\* The commit of an update_position_record.
TxCommitUpdate ==
    \E k \in TxCallers :
        /\ tx.calls[k].pc = "commit"
        /\ tx.calls[k].op = "update_position_record"
        /\ tx' = [commit_update(tx, tx.calls[k])
                    EXCEPT !.calls[k].pc = "done"]
        /\ UNCHANGED notTx

NextTx == TxSelect \/ TxCommitAdd \/ TxCommitUpdate

SpecTx == InitTx /\ [][NextTx]_vars

\* One call applied to a ledger as a whole, and the two sequential orders.
ApplyCall(records, call) ==
    IF call.op = "add_position_record"
    THEN add_position_record(records, call.stock_code, call.volume)
    ELSE update_position_record(records, call.stock_code, call.volume)
SequentialResults ==
    {ApplyCall(ApplyCall(tx.base, tx.calls[1]), tx.calls[2]),
     ApplyCall(ApplyCall(tx.base, tx.calls[2]), tx.calls[1])}

\* C22: when both calls have returned, the table holds at most one row for
\* the code and is the ledger some sequential order of the two calls gives.
C22_LedgerSerializable ==
    (tx.calls # <<>> /\ \A k \in TxCallers : tx.calls[k].pc = "done") =>
        /\ Cardinality({r \in tx.rows : r.stock_code = TxCode}) <= 1
        /\ \E records \in SequentialResults :
               {[stock_code |-> r.stock_code, volume |-> r.volume] :
                    r \in tx.rows}
               = {[stock_code |-> c, volume |-> records[c].volume] :
                      c \in DOMAIN records}


(***************************************************************************)
(* Api: the health-check job over an unbounded run.  The expensive check   *)
(* (QMTService.health_check, an asset query) can fail while the connected  *)
(* flag stays true; hl.degraded says every asset query fails from now on,  *)
(* hl.attempted that the latest run of the job made a reconnect attempt,   *)
(* hl.fires the number of runs of the job so far, modulo 2.                *)
(* Time is kept relative: once the clock stands at MaxHealthClock a run    *)
(* moves the stored timestamps back by one interval instead of moving the  *)
(* clock on, and a timestamp older than the window stays at its start,     *)
(* which is more than a cooldown ago.                                      *)
(***************************************************************************)
MaxHealthClock == 3

\* A timestamp one interval further in the past.
shift_back(t) == IF t = None THEN None ELSE Max(0, t - HealthInterval)
rebase(a) ==
    [a EXCEPT !.qmt_last_health_check_time = shift_back(@),
              !.qmt_last_reconnect_time = shift_back(@)]

InitHealth ==
    /\ position_records = EmptyLedger
    /\ db_call = NoCall
    /\ qmt = QmtInit
    /\ ec = EnsureIdle
    /\ sp = StopIdle
    /\ df = DiffIdle
    /\ api = ApiInit
    /\ clock = 0
    /\ rcg = RcgInit
    /\ cfg = CfgNone
    /\ now = NowInit
    /\ refill_queue = <<>>
    /\ cy = CycleIdle
    /\ rf = RefillIdle
    /\ gh = GhostInit
    /\ pk = PickIdle
    /\ tr = TradeIdle
    /\ gt = GateIdle
    /\ th = ThreadsInit
    /\ tx = TxInit
    /\ bq = BatchInit
    /\ hl = HealthInit
    /\ sch = SchedulerInit
    /\ dc = SessionInit

notHealth == <<ledgerVars, ec, pureVars, rcg, tradeVars, pk, tr, gt, th, tx, bq, schedVars>>

\* Api.start_trading with strategy and configuration in order.
HealthStartTrading ==
    \E outcome \in ConnectOutcomes :
        /\ ~api.running
        /\ qmt' = qmt_connect(qmt, outcome)
        /\ api' = IF outcome = "ok"
                  THEN [api EXCEPT !.running = TRUE,
                                   !.qmt_reconnect_count = 0]
                  ELSE api
        /\ UNCHANGED <<clock, hl, notHealth>>

\* Api.stop_trading
HealthStopTrading ==
    /\ api.running
    /\ qmt' = qmt_disconnect(qmt)
    /\ api' = ApiInit
    /\ hl' = [hl EXCEPT !.attempted = FALSE]
    /\ UNCHANGED <<clock, notHealth>>

\* The broker session stops answering: from now on every asset query fails;
\* the connected flag is not touched.
AssetQueryDegrades ==
    /\ ~hl.degraded
    /\ hl' = [hl EXCEPT !.degraded = TRUE]
    /\ UNCHANGED <<qmt, api, clock, notHealth>>

\* The broker session answers again.
AssetQueryRecovers ==
    /\ hl.degraded
    /\ hl' = [hl EXCEPT !.degraded = FALSE]
    /\ UNCHANGED <<qmt, api, clock, notHealth>>

\* on_disconnected: the session reports the disconnection, the flag drops.
HealthSessionDrops ==
    /\ qmt.connected
    /\ qmt' = [qmt EXCEPT !.connected = FALSE]
    /\ UNCHANGED <<api, clock, hl, notHealth>>

\* A fire of the health-check job while trading runs:
\* Api._qmt_health_check_callback.
HealthFire ==
    \E config_ok \in BOOLEAN, outcome \in ConnectOutcomes,
       reply \in AssetReplies :
        /\ api.running
        /\ hl.degraded => reply # "asset"
        /\ clock' = Min(clock + 1, MaxHealthClock)
        /\ LET a == IF clock < MaxHealthClock THEN api ELSE rebase(api)
               r == qmt_health_check_callback(a, qmt, RcgInit,
                         clock' * HealthInterval, config_ok, outcome, reply)
           IN  /\ api' = r.api
               /\ qmt' = r.qmt
               /\ hl' = [hl EXCEPT !.attempted = r.rcg.attempts > 0,
                                   !.fires = (@ + 1) % 2]
        /\ UNCHANGED notHealth

NextHealth ==
    \/ HealthStartTrading
    \/ HealthStopTrading
    \/ AssetQueryDegrades
    \/ AssetQueryRecovers
    \/ HealthSessionDrops
    \/ HealthFire

SpecHealth == InitHealth /\ [][NextHealth]_vars

\* The interval trigger keeps firing while trading runs.
SpecHealthLive == SpecHealth /\ WF_vars(HealthFire)

\* Degraded: the connected flag is true and every asset query fails.
Degraded == hl.degraded /\ is_connected(qmt) /\ api.running

\* C24: while trading runs, a session that stays Degraded leads to a fire of
\* the health-check job that makes a reconnect attempt.
C24_DegradedLeadsToReconnect ==
    Degraded ~> (hl.attempted \/ ~Degraded)


(***************************************************************************)
(* AutoTradeService: one risk-check cycle with its writes to the refill    *)
(* queue taken one at a time.  execute_stop_profit_loss_check evaluates    *)
(* the ledger rows in turn and collects sold_items; _add_to_refill_queue   *)
(* then calls Database.add_refill_queue once per item, each call a session *)
(* and a commit of its own.  The refill executor reads the queue from      *)
(* another thread.  bq.pending: the rows still to evaluate; bq.written:    *)
(* items committed; bq.seen: what the executor's read returned.            *)
(***************************************************************************)
MaxBatch == 3

InitBatch ==
    /\ position_records = EmptyLedger
    /\ db_call = NoCall
    /\ qmt = QmtInit
    /\ ec = EnsureIdle
    /\ sp = StopIdle
    /\ df = DiffIdle
    /\ api = ApiInit
    /\ clock = 0
    /\ rcg = RcgInit
    /\ cfg = CfgNone
    /\ \E tod \in TimesOfDay : now = [date |-> 1, tod |-> tod]
    /\ refill_queue = <<>>
    /\ cy = CycleIdle
    /\ rf = RefillIdle
    /\ gh = GhostInit
    /\ pk = PickIdle
    /\ tr = TradeIdle
    /\ gt = GateIdle
    /\ th = ThreadsInit
    /\ tx = TxInit
    /\ \E n \in 1..MaxBatch :
           bq = [BatchInit EXCEPT !.pc = "loop",
                                  !.pending = [i \in 1..n |-> i]]
    /\ hl = HealthInit
    /\ sch = SchedulerInit
    /\ dc = SessionInit

notBatch == <<ledgerVars, ensureVars, pureVars, reconnVars, cfg, now, cy, rf, gh, pk, tr, gt, th, tx, hl, schedVars>>

\* Where the cycle stands after its loop over the ledger: nothing to write,
\* the batch dropped past the cut-off, or the writes ahead.
after_loop(sold_items, tod) ==
    IF sold_items = <<>> \/ past_deadline(tod) THEN "done" ELSE "enqueue"

\* One round of the loop: _check_single_position on the next ledger row;
\* sold: it placed a sell and returned its record.
BatchCheckPosition ==
    \E sold \in BOOLEAN :
        /\ bq.pc = "loop"
        /\ LET items == IF sold
                        THEN Append(bq.sold_items,
                                    [stock_code |-> Head(bq.pending)])
                        ELSE bq.sold_items
               rest == Tail(bq.pending)
           IN  bq' = [bq EXCEPT
                         !.sold_items = items,
                         !.pending = rest,
                         !.pc = IF rest = <<>>
                                THEN after_loop(items, now.tod) ELSE "loop"]
        /\ UNCHANGED <<refill_queue, notBatch>>

\* One round of the loop in _add_to_refill_queue: add_refill_queue commits
\* the next item, or raises (the exception ends the cycle in the handler of
\* execute_stop_profit_loss_check).
BatchAddRefillQueue ==
    \E db_ok \in BOOLEAN :
        /\ bq.pc = "enqueue"
        /\ IF db_ok
           THEN /\ refill_queue' =
                       add_refill_queue(refill_queue, now,
                                        bq.sold_items[bq.written + 1])
                /\ bq' = [bq EXCEPT
                             !.written = @ + 1,
                             !.pc = IF bq.written + 1 = Len(bq.sold_items)
                                    THEN "done" ELSE "enqueue"]
           ELSE /\ bq' = [bq EXCEPT !.pc = "failed"]
                /\ UNCHANGED refill_queue
        /\ UNCHANGED notBatch

\* execute_scheduled_refill on another thread reads today's queue.
BatchRefillReads ==
    /\ ~bq.read
    /\ bq' = [bq EXCEPT !.read = TRUE,
                        !.seen = get_refill_queue(refill_queue, now.date)]
    /\ UNCHANGED <<refill_queue, notBatch>>

NextBatch ==
    \/ BatchCheckPosition
    \/ BatchAddRefillQueue
    \/ BatchRefillReads

SpecBatch == InitBatch /\ [][NextBatch]_vars

\* The codes of queue rows or sell records, in order.
BatchCodes(rows) == [i \in DOMAIN rows |-> rows[i].stock_code]

\* C28: nothing is in the queue while ledger rows are still being
\* evaluated, and the queue after the cycle, like the queue a concurrent
\* read returns, holds every sell record of the cycle or none.
C28_BatchAllOrNothing ==
    /\ bq.pc = "loop" => refill_queue = <<>>
    /\ bq.pc \in {"done", "failed"} =>
           BatchCodes(refill_queue) \in {<<>>, BatchCodes(bq.sold_items)}
    /\ bq.read => BatchCodes(bq.seen) \in {<<>>, BatchCodes(bq.sold_items)}


(***************************************************************************)
(* AutoTradeService: the per-instrument loops of one cycle with the        *)
(* failures an instrument can meet: a connection check that fails, a quote *)
(* without a price, an order the broker refuses, and the session raising   *)
(* at the order call.  Each routine (_sell_bond, _check_single_position    *)
(* with _execute_stop_order, _buy_bond) runs its body in a try whose       *)
(* except logs and notifies; the loops call the routines inside the        *)
(* cycle's own try.  df keeps the instruments the cycle set out with, gt   *)
(* the instruments processed so far with what happened to each.            *)
(***************************************************************************)
MaxLoopCodes == 3
LoopCodes == 1..MaxLoopCodes
\* What the order call does.
OrderReplies == {"accepted", "rejected", "raises"}

\* A routine without its try: an exception of the session leaves it.
no_try(r, order_reply) ==
    IF order_reply = "raises" /\ r.order # NoOrder
    THEN [result |-> [r EXCEPT !.outcome = "raised"], escaped |-> TRUE]
    ELSE [result |-> r, escaped |-> FALSE]

\* try: <body> except Exception: log, send_trade_error_notification.
\* r: what the body did with an order call that returned; when the order
\* call raises instead, the except clause ends the routine.
try_routine(r, order_reply) ==
    IF order_reply = "raises" /\ r.order # NoOrder
    THEN [result |-> [r EXCEPT !.outcome = "raised",
                               !.notice = "send_trade_error_notification"],
          escaped |-> FALSE]
    ELSE [result |-> r, escaped |-> FALSE]

\* The ledger and holdings of a cycle over the codes S: one lot each.
LotLedger(S) == [c \in S |-> [volume |-> LotSize]]
LotPositions(S) == [c \in S |-> LotSize]
LoopConfig ==
    [strategy |-> TRUE, buy_amount_type |-> "fixed", fixed_amount |-> 5000,
     stop_profit_ratio |-> 1, stop_loss_ratio |-> 1]

\* The cycles at the head of their loops: a rebalance with codes to sell and
\* to buy, a risk check with records to check, a refill with bonds to buy.
LoopCycles ==
    {[CycleIdle EXCEPT !.kind = "rebalance",
                       !.pc = IF S = {} THEN "amount" ELSE "sell",
                       !.project_records = LotLedger(S),
                       !.positions = LotPositions(S),
                       !.to_sell_codes = S, !.to_buy = B, !.ensured = TRUE] :
         S \in SUBSET LoopCodes, B \in SUBSET LoopCodes}
    \cup {[CycleIdle EXCEPT !.kind = "risk", !.pc = "check",
                            !.project_records = LotLedger(S),
                            !.positions = LotPositions(S)] :
              S \in SUBSET LoopCodes \ {{}}}

InitLoop ==
    /\ db_call = NoCall
    /\ qmt = qmt_connect(QmtInit, "ok")
    /\ ec = EnsureIdle
    /\ sp = StopIdle
    /\ api = ApiInit
    /\ clock = 0
    /\ rcg = RcgInit
    /\ cfg = LoopConfig
    /\ now = NowInit
    /\ refill_queue = <<>>
    /\ gh = GhostInit
    /\ pk = PickIdle
    /\ tr = TradeIdle
    /\ gt = GateIdle
    /\ th = ThreadsInit
    /\ tx = TxInit
    /\ bq = BatchInit
    /\ hl = HealthInit
    /\ sch = SchedulerInit
    /\ dc = SessionInit
    /\ \/ /\ cy \in LoopCycles
          /\ cy.to_sell_codes \cap cy.to_buy = {}
          /\ cy.kind = "rebalance" => cy.to_sell_codes \cup cy.to_buy # {}
          /\ rf = RefillIdle
          /\ position_records = cy.project_records
          /\ df = [DiffIdle EXCEPT
                      !.to_sell_codes = DOMAIN cy.project_records,
                      !.to_buy = cy.to_buy, !.pc = "planned"]
       \/ /\ cy = CycleIdle
          /\ position_records = EmptyLedger
          /\ \E n \in 1..MaxLoopCodes :
                /\ rf = [RefillIdle EXCEPT
                            !.pc = "buy", !.to_buy = [i \in 1..n |-> i],
                            !.buy_amount = [num |-> 5000, den |-> 1]]
                /\ df = [DiffIdle EXCEPT !.to_buy = 1..n, !.pc = "planned"]

notLoop == <<db_call, qmt, ec, sp, df, reconnVars, cfg, now, refill_queue, gh, pk, tr, th, tx, bq, hl, schedVars>>

\* One instrument processed: its code and what its routine did.
Processed(stock_code, t) ==
    Append(gt, [stock_code |-> stock_code, outcome |-> t.result.outcome])

\* A sell loop left after its first round.
sell_loop_next_first_only(rest) == "amount"

\* "for stock_code in to_sell_codes": the loop body runs for every code
\* before the statement after the loop, the amount of step 6.
sell_loop_next(rest) == IF rest = {} THEN "amount" ELSE "sell"

\* execute_rebalance step 5, one round: _sell_bond.
LoopSell ==
    /\ cy.kind = "rebalance"
    /\ cy.pc = "sell"
    /\ \E stock_code \in cy.to_sell_codes, reply \in ProbeReplies,
          price \in SellPrices, order_reply \in OrderReplies :
        LET t == try_routine(
                     sell_bond(position_records, cy, stock_code,
                               health_check(qmt, reply), price, FALSE,
                               order_reply = "accepted"), order_reply)
            rest == cy.to_sell_codes \ {stock_code}
        IN  /\ position_records' = t.result.position_records
            /\ gt' = Processed(stock_code, t)
            /\ cy' = IF t.escaped THEN CycleIdle
                     ELSE [cy EXCEPT !.to_sell_codes = rest,
                                     !.pc = sell_loop_next(rest)]
    /\ UNCHANGED <<rf, notLoop>>

\* execute_rebalance step 6: _calculate_buy_amount.
LoopAmount ==
    /\ cy.kind = "rebalance"
    /\ cy.pc = "amount"
    /\ \E cash \in CashReplies :
        cy' = IF cy.to_buy = {} THEN CycleIdle
              ELSE [cy EXCEPT
                       !.pc = "buy",
                       !.buy_amount = calculate_buy_amount(
                           cfg, Cardinality(cy.to_buy), is_connected(qmt),
                           cash)]
    /\ UNCHANGED <<position_records, gt, rf, notLoop>>

\* execute_rebalance step 7, one round: _buy_bond.
LoopBuy ==
    /\ cy.kind = "rebalance"
    /\ cy.pc = "buy"
    /\ \E stock_code \in cy.to_buy, reply \in ProbeReplies,
          price \in BuyPrices, order_reply \in OrderReplies :
        LET t == try_routine(
                     buy_bond(position_records, cy.kind, cy.ensured,
                              stock_code, cy.buy_amount,
                              health_check(qmt, reply), price,
                              order_reply = "accepted"), order_reply)
            rest == cy.to_buy \ {stock_code}
        IN  /\ position_records' = t.result.position_records
            /\ gt' = Processed(stock_code, t)
            /\ cy' = IF t.escaped \/ rest = {} THEN CycleIdle
                     ELSE [cy EXCEPT !.to_buy = rest]
    /\ UNCHANGED <<rf, notLoop>>

\* execute_stop_profit_loss_check, one round: _check_single_position.
LoopCheck ==
    /\ cy.kind = "risk"
    /\ cy.pc = "check"
    /\ \E stock_code \in DOMAIN cy.project_records, reply \in ProbeReplies,
          price \in QuotePrices, order_reply \in OrderReplies :
        LET t == try_routine(
                     check_single_position(position_records, cy, stock_code,
                         health_check(qmt, reply), price, 500, FALSE,
                         order_reply = "accepted"), order_reply)
            rest == DOMAIN cy.project_records \ {stock_code}
        IN  /\ position_records' = t.result.position_records
            /\ gt' = Processed(stock_code, t)
            /\ cy' = IF t.escaped \/ rest = {} THEN CycleIdle
                     ELSE [cy EXCEPT
                              !.project_records = Restrict(@, rest),
                              !.positions = Restrict(@, rest)]
    /\ UNCHANGED <<rf, notLoop>>

\* execute_scheduled_refill step 10, one round: _buy_bond.
LoopRefillBuy ==
    /\ rf.pc = "buy"
    /\ \E reply \in ProbeReplies, price \in BuyPrices,
          order_reply \in OrderReplies :
        LET t == try_routine(
                     buy_bond(position_records, "refill", rf.ensured,
                              Head(rf.to_buy), rf.buy_amount,
                              health_check(qmt, reply), price,
                              order_reply = "accepted"), order_reply)
            rest == Tail(rf.to_buy)
        IN  /\ position_records' = t.result.position_records
            /\ gt' = Processed(Head(rf.to_buy), t)
            /\ rf' = IF t.escaped \/ rest = <<>> THEN RefillIdle
                     ELSE [rf EXCEPT !.to_buy = rest]
    /\ UNCHANGED <<cy, notLoop>>

NextLoop ==
    \/ LoopSell
    \/ LoopAmount
    \/ LoopBuy
    \/ LoopCheck
    \/ LoopRefillBuy

SpecLoop == InitLoop /\ [][NextLoop]_vars

\* What counts as a failure of one instrument.
InstrumentFailures == {"ensure_failed", "no_price", "rejected", "raised"}
ProcessedCodes == {gt[i].stock_code : i \in DOMAIN gt}

\* C30: a step that ends one instrument in a failure leaves the cycle in its
\* loop while instruments remain, and a cycle that has ended has processed
\* every instrument it set out with, each once.
C30_FailureEndsOneInstrument ==
    /\ []((cy.pc = "idle" /\ rf.pc = "idle") =>
             /\ ProcessedCodes = df.to_sell_codes \cup df.to_buy
             /\ Len(gt) = Cardinality(df.to_sell_codes \cup df.to_buy))
    /\ [][(/\ Len(gt') = Len(gt) + 1
           /\ gt'[Len(gt')].outcome \in InstrumentFailures
           /\ (df.to_sell_codes \cup df.to_buy) \ ProcessedCodes' # {})
              => (cy'.pc # "idle" \/ rf'.pc # "idle")]_vars

\* C30 witness: the first instrument of a cycle failed with the session
\* raising, and the cycle went on to trade the two that remained.
C30_Witness ==
    /\ cy.pc = "idle"
    /\ rf.pc = "idle"
    /\ Len(gt) = 3
    /\ gt[1].outcome = "raised"
    /\ gt[2].outcome \in InstrumentFailures
    /\ gt[3].outcome \in {"sold", "bought"}

\* The rounds of the sell loop among the instruments processed so far.
SellRounds == {i \in DOMAIN gt : gt[i].stock_code \in df.to_sell_codes}
BuyRounds == {i \in DOMAIN gt : gt[i].stock_code \in df.to_buy}

\* C39: in one rebalance every code to sell has been processed, sold or
\* skipped, when the buy amount is computed and while the buy loop runs,
\* and among the instruments processed no round of the sell loop comes
\* after a round of the buy loop.
C39_SellsBeforeBuys ==
    /\ []((cy.kind = "rebalance" /\ cy.pc \in {"amount", "buy"}) =>
             /\ cy.to_sell_codes = {}
             /\ df.to_sell_codes \subseteq ProcessedCodes)
    /\ []((cy.kind = "rebalance" /\ cy.pc = "sell") => BuyRounds = {})
    /\ [](\A i \in SellRounds, j \in BuyRounds : i < j)
    /\ [][(cy.kind = "rebalance" /\ cy'.buy_amount # cy.buy_amount) =>
             df.to_sell_codes \subseteq ProcessedCodes]_vars

\* C39 witness: a rebalance skipped its first code to sell on a failure,
\* sold the second, then bought and ended.
C39_Witness ==
    /\ cy.pc = "idle"
    /\ Len(gt) = 3
    /\ SellRounds = {1, 2}
    /\ gt[1].outcome \in InstrumentFailures
    /\ gt[2].outcome = "sold"
    /\ gt[3].outcome = "bought"

(***************************************************************************)
(* The trading-day check of the scheduler wrappers (datetime_helper        *)
(* is_trading_day) over a few dates.  sch carries, besides the jobs and    *)
(* the last fire, the two module globals of the cache, the date and the    *)
(* weekday of now(), what the trading calendar holds for the date, and     *)
(* what the last check did.                                                *)
(***************************************************************************)
MaxDates == 2
MaxUpstream == 3
Saturday == 5
CalendarJobs == {"bond_selection", "stop_profit_loss", "refill"}
CalendarAnswers == {"dates", "empty"}
UpstreamReplies == {"answer", "raises"}

\* now().weekday() < 5
is_weekday(weekday) == weekday < Saturday

NoCheck == [result |-> FALSE, source |-> "none", upstream |-> FALSE]

\* is_trading_day with a failed calendar query taken as a trading day.
is_trading_day_no_fallback(qmt_service, cached_date, cached_value, today, weekday, reply) ==
    IF ~qmt_service
    THEN [result |-> TRUE, source |-> "weekday", upstream |-> FALSE,
          cached_date |-> cached_date, cached_value |-> cached_value]
    ELSE IF cached_date = today /\ cached_value # "None"
    THEN [result |-> cached_value = "True", source |-> "cache",
          upstream |-> FALSE,
          cached_date |-> cached_date, cached_value |-> cached_value]
    ELSE IF reply = "raises"
    THEN [result |-> TRUE, source |-> "weekday", upstream |-> TRUE,
          cached_date |-> cached_date, cached_value |-> cached_value]
    ELSE [result |-> reply = "dates", source |-> "calendar",
          upstream |-> TRUE, cached_date |-> today,
          cached_value |-> IF reply = "dates" THEN "True" ELSE "False"]

\* is_trading_day with the cache read whatever its date.
is_trading_day_any_date(qmt_service, cached_date, cached_value, today, weekday, reply) ==
    IF ~qmt_service
    THEN [result |-> is_weekday(weekday), source |-> "weekday",
          upstream |-> FALSE,
          cached_date |-> cached_date, cached_value |-> cached_value]
    ELSE IF cached_value # "None"
    THEN [result |-> cached_value = "True", source |-> "cache",
          upstream |-> FALSE,
          cached_date |-> cached_date, cached_value |-> cached_value]
    ELSE IF reply = "raises"
    THEN [result |-> is_weekday(weekday), source |-> "weekday",
          upstream |-> TRUE,
          cached_date |-> cached_date, cached_value |-> cached_value]
    ELSE [result |-> reply = "dates", source |-> "calendar",
          upstream |-> TRUE, cached_date |-> today,
          cached_value |-> IF reply = "dates" THEN "True" ELSE "False"]

\* is_trading_day(qmt_service): the result, where it came from, whether
\* get_trading_dates was called, and the two globals afterwards.  reply is
\* what get_trading_dates does if called: "dates" (a non-empty list),
\* "empty" or "raises".
is_trading_day(qmt_service, cached_date, cached_value, today, weekday, reply) ==
    IF ~qmt_service
    THEN [result |-> is_weekday(weekday), source |-> "weekday",
          upstream |-> FALSE,
          cached_date |-> cached_date, cached_value |-> cached_value]
    ELSE IF cached_date = today /\ cached_value # "None"
    THEN [result |-> cached_value = "True", source |-> "cache",
          upstream |-> FALSE,
          cached_date |-> cached_date, cached_value |-> cached_value]
    ELSE IF reply = "raises"
    THEN [result |-> is_weekday(weekday), source |-> "weekday",
          upstream |-> TRUE,
          cached_date |-> cached_date, cached_value |-> cached_value]
    ELSE [result |-> reply = "dates", source |-> "calendar",
          upstream |-> TRUE, cached_date |-> today,
          cached_value |-> IF reply = "dates" THEN "True" ELSE "False"]

\* Every component but the scheduler as its constructor leaves it.
notSchInit ==
    /\ position_records = EmptyLedger
    /\ db_call = NoCall
    /\ qmt = QmtInit
    /\ ec = EnsureIdle
    /\ sp = StopIdle
    /\ df = DiffIdle
    /\ api = ApiInit
    /\ clock = 0
    /\ rcg = RcgInit
    /\ cfg = CfgNone
    /\ now = NowInit
    /\ refill_queue = <<>>
    /\ cy = CycleIdle
    /\ rf = RefillIdle
    /\ gh = GhostInit
    /\ pk = PickIdle
    /\ tr = TradeIdle
    /\ gt = GateIdle
    /\ th = ThreadsInit
    /\ tx = TxInit
    /\ bq = BatchInit
    /\ hl = HealthInit
    /\ dc = SessionInit

\* start_trading has registered the jobs; the cache globals are None; the
\* scheduler was built with or without a QMT service.
InitCalendar ==
    /\ notSchInit
    /\ \E qmt_service \in BOOLEAN, weekday \in 0..6, calendar \in CalendarAnswers :
        sch = [jobs |-> [j \in JobIds |-> trigger_of(j, "daily")],
               raised |-> {}, fire |-> NoFire,
               qmt_service |-> qmt_service, date |-> 0,
               weekday |-> weekday, calendar |-> calendar,
               cached_trading_day_date |-> None,
               cached_is_trading_day |-> "None",
               upstream_calls |-> 0, answers |-> 0, check |-> NoCheck,
               reply |-> "none"]

\* Midnight: the next date, with its own calendar entry.
NextDate ==
    /\ sch.date < MaxDates
    /\ \E calendar \in CalendarAnswers :
        sch' = [sch EXCEPT !.date = @ + 1, !.weekday = (@ + 1) % 7,
                           !.calendar = calendar, !.upstream_calls = 0,
                           !.answers = 0, !.fire = NoFire,
                           !.check = NoCheck, !.reply = "none"]
    /\ UNCHANGED notSch

\* The trigger of a job that asks for the trading day fires:
\* _execute_bond_selection, _execute_refill, _execute_stop_profit_loss.
CalendarFire ==
    /\ sch.upstream_calls < MaxUpstream
    /\ \E job \in DOMAIN sch.jobs \cap CalendarJobs, upstream \in UpstreamReplies, raises \in BOOLEAN :
        LET reply == IF upstream = "raises" THEN "raises" ELSE sch.calendar
            c == is_trading_day(sch.qmt_service, sch.cached_trading_day_date,
                                sch.cached_is_trading_day, sch.date,
                                sch.weekday, reply)
            outcome == fire_outcome(job, c.result, TRUE, raises)
        IN  sch' = [sch EXCEPT
                       !.fire = [job |-> job, trading_day |-> c.result,
                                 in_window |-> TRUE, raises |-> raises,
                                 outcome |-> outcome],
                       !.cached_trading_day_date = c.cached_date,
                       !.cached_is_trading_day = c.cached_value,
                       !.upstream_calls = IF c.upstream THEN @ + 1 ELSE @,
                       !.answers = IF c.source = "calendar" THEN @ + 1 ELSE @,
                       !.check = [result |-> c.result, source |-> c.source,
                                  upstream |-> c.upstream],
                       !.reply = reply]
    /\ UNCHANGED notSch

NextCalendar ==
    \/ NextDate
    \/ CalendarFire

SpecCalendar == InitCalendar /\ [][NextCalendar]_vars

\* The calendar source could not be asked or did not answer in the last
\* check.
SourceUnavailable ==
    \/ ~sch.qmt_service
    \/ sch.check.upstream /\ sch.reply = "raises"

\* C31: a fire of the rebalance or the replenishment trigger on a day the
\* check takes as no trading day skips the callback and leaves the job
\* registered; with the calendar source unavailable the check answers
\* exactly "Monday to Friday", and with the source answering it answers what
\* the calendar holds for the date.
C31_NonTradingDaySkips ==
    sch.fire.job \in {"bond_selection", "refill"} =>
        /\ ~sch.fire.trading_day =>
               /\ sch.fire.outcome = "skipped"
               /\ sch.fire.job \in DOMAIN sch.jobs
        /\ sch.fire.trading_day => sch.fire.outcome \in {"invoked", "caught"}
        /\ SourceUnavailable =>
               /\ sch.check.source = "weekday"
               /\ sch.fire.trading_day = is_weekday(sch.weekday)
        /\ ~SourceUnavailable =>
               sch.fire.trading_day = (sch.calendar = "dates")

\* C31 witness: the calendar query raised on a Saturday or Sunday and the
\* replenishment fire skipped its callback.
C31_Witness ==
    /\ sch.fire.job = "refill"
    /\ sch.qmt_service
    /\ sch.check.upstream
    /\ sch.reply = "raises"
    /\ ~is_weekday(sch.weekday)
    /\ sch.fire.outcome = "skipped"

JobsOf(store, job_id) == {i \in DOMAIN store : store[i].id = job_id}
TriggersOf(store, job_id) == {store[i].trigger : i \in JobsOf(store, job_id)}

\* BackgroundScheduler.remove_job(job_id)
scheduler_remove_job(store, job_id) ==
    LET hits == JobsOf(store, job_id)
    IN  IF hits = {} THEN [store |-> store, raised |-> TRUE]
        ELSE LET i == CHOOSE h \in hits : \A g \in hits : h <= g
             IN  [store |-> SubSeq(store, 1, i - 1) \o
                            SubSeq(store, i + 1, Len(store)),
                  raised |-> FALSE]

\* BackgroundScheduler.add_job(..., id=job.id, replace_existing=...)
scheduler_add_job(store, job, replace_existing) ==
    LET hits == JobsOf(store, job.id)
    IN  IF hits = {} THEN [store |-> Append(store, job), raised |-> FALSE]
        ELSE IF replace_existing
        THEN LET i == CHOOSE h \in hits : \A g \in hits : h <= g
             IN  [store |-> [store EXCEPT ![i] = job], raised |-> FALSE]
        ELSE [store |-> store, raised |-> TRUE]

\* remove_job with the library call outside any try.
remove_job_no_try(store, job_id) ==
    LET r == scheduler_remove_job(store, job_id)
    IN  [store |-> r.store, lookup_error |-> r.raised,
         escaped |-> IF r.raised THEN "JobLookupError" ELSE "none"]

\* SchedulerService.remove_job: try: scheduler.remove_job except Exception.
remove_job(store, job_id) ==
    LET r == scheduler_remove_job(store, job_id)
    IN  [store |-> r.store, lookup_error |-> r.raised, escaped |-> "none"]

\* add_*_job: remove_job(id); for the two cron jobs parse the time
\* ("HH:MM", a ValueError leaves the method when it is malformed); build the
\* trigger, returning when the schedule type is unknown; add_job with
\* replace_existing=True.
add_job(store, job_id, schedule_type, time_ok) ==
    LET r == remove_job(store, job_id)
        trigger == trigger_of(job_id, schedule_type)
    IN  IF r.escaped # "none" THEN r
        ELSE IF job_id \in {"bond_selection", "refill"} /\ ~time_ok
        THEN [r EXCEPT !.escaped = "ValueError"]
        ELSE IF trigger = "none" THEN r
        ELSE [r EXCEPT !.store =
                 scheduler_add_job(r.store,
                     [id |-> job_id, trigger |-> trigger], TRUE).store]

NoJobCall == [op |-> "none", job_id |-> "none", schedule_type |-> "none",
              time_ok |-> TRUE, before |-> <<>>, lookup_error |-> FALSE,
              escaped |-> "none"]

\* SchedulerService.__init__: the scheduler holds no job.
InitJobs ==
    /\ notSchInit
    /\ sch = [store |-> <<>>, last |-> NoJobCall]

\* One of the five add_*_job methods is called.
JobsAdd ==
    /\ \E job_id \in JobIds, schedule_type \in ScheduleTypes, time_ok \in BOOLEAN :
        LET r == add_job(sch.store, job_id, schedule_type, time_ok)
        IN  sch' = [store |-> r.store,
                    last |-> [op |-> "add", job_id |-> job_id,
                              schedule_type |-> schedule_type,
                              time_ok |-> time_ok, before |-> sch.store,
                              lookup_error |-> r.lookup_error,
                              escaped |-> r.escaped]]
    /\ UNCHANGED notSch

\* remove_job(job_id) is called, for a job that exists or not.
JobsRemove ==
    /\ \E job_id \in JobIds :
        LET r == remove_job(sch.store, job_id)
        IN  sch' = [store |-> r.store,
                    last |-> [op |-> "remove", job_id |-> job_id,
                              schedule_type |-> "none", time_ok |-> TRUE,
                              before |-> sch.store,
                              lookup_error |-> r.lookup_error,
                              escaped |-> r.escaped]]
    /\ UNCHANGED notSch

NextJobs ==
    \/ JobsAdd
    \/ JobsRemove

SpecJobs == InitJobs /\ [][NextJobs]_vars

\* C33: the store holds at most one job per id; a call for one id leaves
\* the jobs of every other id as they were; an add that reaches add_job
\* leaves exactly the new job under its id; a remove leaves none under its
\* id and no exception leaves it, and with the job absent it changes
\* nothing.
C33_OneJobPerId ==
    /\ \A id \in JobIds : Cardinality(JobsOf(sch.store, id)) <= 1
    /\ \A i \in DOMAIN sch.store : sch.store[i].id \in JobIds
    /\ sch.last.op # "none" =>
           \A id \in JobIds \ {sch.last.job_id} :
               TriggersOf(sch.store, id) = TriggersOf(sch.last.before, id)
    /\ (/\ sch.last.op = "add"
        /\ sch.last.escaped = "none"
        /\ trigger_of(sch.last.job_id, sch.last.schedule_type) # "none") =>
           TriggersOf(sch.store, sch.last.job_id) =
               {trigger_of(sch.last.job_id, sch.last.schedule_type)}
    /\ sch.last.op = "remove" =>
           /\ sch.last.escaped = "none"
           /\ JobsOf(sch.store, sch.last.job_id) = {}
           /\ JobsOf(sch.last.before, sch.last.job_id) = {} =>
                  /\ sch.last.lookup_error
                  /\ sch.store = sch.last.before

\* C33 witness: remove_job was called for a job that was not there while
\* two other jobs were, and the store is as before.
C33_Witness ==
    /\ sch.last.op = "remove"
    /\ JobsOf(sch.last.before, sch.last.job_id) = {}
    /\ sch.last.lookup_error
    /\ Len(sch.store) >= 2
    /\ sch.store = sch.last.before

\* C40: after add_bond_selection_job with a schedule type other than daily,
\* weekly or monthly no rebalance job exists, also when one existed before
\* the call, and the jobs of every other id are as before.
C40_UnknownCadenceLeavesNoJob ==
    (/\ sch.last.op = "add"
     /\ sch.last.job_id = "bond_selection"
     /\ sch.last.schedule_type \notin {"daily", "weekly", "monthly"}) =>
        /\ JobsOf(sch.store, "bond_selection") = {}
        /\ \A id \in JobIds \ {"bond_selection"} :
               TriggersOf(sch.store, id) = TriggersOf(sch.last.before, id)
        /\ Len(sch.store) =
               Len(sch.last.before) -
                   Cardinality(JobsOf(sch.last.before, "bond_selection"))

\* C40 witness: a rebalance job was registered next to another job, the
\* call with an unknown schedule type returned normally, and the rebalance
\* job is gone.
C40_Witness ==
    /\ sch.last.op = "add"
    /\ sch.last.job_id = "bond_selection"
    /\ sch.last.schedule_type = "unknown"
    /\ sch.last.time_ok
    /\ sch.last.escaped = "none"
    /\ JobsOf(sch.last.before, "bond_selection") # {}
    /\ JobsOf(sch.store, "bond_selection") = {}
    /\ Len(sch.store) >= 1

(***************************************************************************)
(* The buy amount of a rebalance and of a refill: step 6 of                *)
(* execute_rebalance and step 9 of execute_scheduled_refill followed by    *)
(* their buy loops, for every configuration, number of bonds to buy,       *)
(* session state and asset reply.  gh.op keeps the bond count and the cash *)
(* the amount was computed from, df the bonds the cycle set out to buy,    *)
(* gt the bonds _buy_bond was called for.                                  *)
(***************************************************************************)
AmountConfigs ==
    Configs \cup {[strategy |-> TRUE, buy_amount_type |-> "fixed",
                   fixed_amount |-> 0, stop_profit_ratio |-> 1,
                   stop_loss_ratio |-> 1]}

\* AutoTradeService.__init__: no cycle has run.
InitAmount ==
    /\ notSchInit
    /\ sch = SchedulerInit

notAmount == <<db_call, ec, sp, api, clock, rcg, now, refill_queue, pk, tr, th, tx, bq, hl, sch, dc>>

\* A rebalance has passed its sell loop with the set to_buy, or a refill has
\* cut its candidates to a non-empty to_buy; the session is up or has dropped
\* since the cycle's check.
AmountStart ==
    /\ cy.pc = "idle"
    /\ rf.pc = "idle"
    /\ df = DiffIdle
    /\ cfg' \in AmountConfigs
    /\ \E connected \in BOOLEAN :
        qmt' = IF connected THEN qmt_connect(QmtInit, "ok") ELSE QmtInit
    /\ \/ \E B \in SUBSET LoopCodes :
            /\ cy' = [CycleIdle EXCEPT !.kind = "rebalance", !.pc = "amount",
                                       !.to_buy = B, !.ensured = TRUE]
            /\ rf' = RefillIdle
            /\ df' = [DiffIdle EXCEPT !.to_buy = B, !.pc = "planned"]
       \/ \E n \in 1..MaxLoopCodes :
            /\ rf' = [RefillIdle EXCEPT !.pc = "amount",
                                        !.to_buy = [i \in 1..n |-> i],
                                        !.ensured = TRUE]
            /\ cy' = CycleIdle
            /\ df' = [DiffIdle EXCEPT !.to_buy = 1..n, !.pc = "planned"]
    /\ UNCHANGED <<position_records, gh, gt, notAmount>>

\* What _calculate_buy_amount(bond_count) asked of the session.
AmountOp(by, bond_count, cash) ==
    [name |-> IF /\ cfg.buy_amount_type = "average"
                 /\ bond_count > 0
              THEN "get_asset" ELSE "none",
     by |-> by, ensured |-> TRUE, bond_count |-> bond_count, cash |-> cash]

\* execute_rebalance step 6: buy_amount = _calculate_buy_amount(len(to_buy));
\* the loop of step 7 has nothing to do when to_buy is empty.
AmountRebalance ==
    /\ cy.kind = "rebalance"
    /\ cy.pc = "amount"
    /\ \E cash \in CashReplies :
        LET n == Cardinality(cy.to_buy)
        IN  /\ cy' = IF cy.to_buy = {} THEN CycleIdle
                     ELSE [cy EXCEPT
                              !.pc = "buy",
                              !.buy_amount = calculate_buy_amount(
                                  cfg, n, is_connected(qmt), cash)]
            /\ gh' = [gh EXCEPT !.op = AmountOp("rebalance", n, cash)]
    /\ UNCHANGED <<position_records, qmt, cfg, rf, df, gt, notAmount>>

\* execute_scheduled_refill step 9: an amount <= 0 ends the refill.
AmountRefill ==
    /\ rf.pc = "amount"
    /\ \E cash \in CashReplies :
        LET n == Len(rf.to_buy)
            amount == calculate_buy_amount(cfg, n, is_connected(qmt), cash)
        IN  /\ rf' = IF amount.num <= 0 THEN RefillIdle
                     ELSE [rf EXCEPT !.pc = "buy", !.buy_amount = amount]
            /\ gh' = [gh EXCEPT !.op = AmountOp("refill", n, cash)]
    /\ UNCHANGED <<position_records, qmt, cfg, cy, df, gt, notAmount>>

NextAmount ==
    \/ AmountStart
    \/ AmountRebalance
    \/ AmountRefill
    \/ LoopBuy
    \/ LoopRefillBuy

SpecAmount == InitAmount /\ [][NextAmount]_vars

\* The amount the buy loop in progress hands to _buy_bond.
AmountInUse == IF cy.pc = "buy" THEN cy.buy_amount ELSE rf.buy_amount

MaxPricedVolume == 30
PricedAmounts == {20000, 40000}
PricedPrices == {0, 1000, 1250}
DatabaseReplies == {"ok", "raises", "none"}

\* total_value / total_volume as a fraction in lowest terms.
RECURSIVE PriceGcd(_, _)
PriceGcd(a, b) == IF b = 0 THEN a ELSE PriceGcd(b, a % b)
quotient(num, den) ==
    [num |-> num \div PriceGcd(num, den), den |-> den \div PriceGcd(num, den)]

RowsOf(rows, stock_code) == {r \in rows : r.stock_code = stock_code}
NoPricedRow == [id |-> None, stock_code |-> 0, volume |-> 0,
                buy_price |-> [num |-> 0, den |-> 1]]

\* session.query(PositionRecordTable).filter_by(stock_code=...).first()
first_row(rows, stock_code) ==
    IF RowsOf(rows, stock_code) = {} THEN NoPricedRow
    ELSE CHOOSE r \in RowsOf(rows, stock_code) :
             \A q \in RowsOf(rows, stock_code) : r.id <= q.id

\* add_position_record that stores the price of the last buy.
add_position_record_last_price(t, stock_code, volume, buy_price) ==
    LET existing == first_row(t.rows, stock_code)
    IN  IF existing # NoPricedRow
        THEN [t EXCEPT !.rows =
                 {IF r.id = existing.id
                  THEN [r EXCEPT !.buy_price = [num |-> buy_price, den |-> 1],
                                 !.volume = existing.volume + volume]
                  ELSE r : r \in t.rows}]
        ELSE [t EXCEPT !.rows = @ \cup
                           {[id |-> t.next_id, stock_code |-> stock_code,
                             volume |-> volume,
                             buy_price |-> [num |-> buy_price, den |-> 1]]},
                       !.next_id = @ + 1]

\* Database.add_position_record with its prices: an existing row gets
\* total_value / total_volume and the summed volume, a code without a row
\* gets a new row.
add_position_record_priced(t, stock_code, volume, buy_price) ==
    LET existing == first_row(t.rows, stock_code)
        total_value ==
            [num |-> existing.volume * existing.buy_price.num +
                         volume * buy_price * existing.buy_price.den,
             den |-> existing.buy_price.den]
        total_volume == existing.volume + volume
    IN  IF existing # NoPricedRow
        THEN [t EXCEPT !.rows =
                 {IF r.id = existing.id
                  THEN [r EXCEPT
                           !.buy_price =
                               IF total_volume > 0
                               THEN quotient(total_value.num,
                                             total_value.den * total_volume)
                               ELSE [num |-> buy_price, den |-> 1],
                           !.volume = total_volume]
                  ELSE r : r \in t.rows}]
        ELSE [t EXCEPT !.rows = @ \cup
                           {[id |-> t.next_id, stock_code |-> stock_code,
                             volume |-> volume,
                             buy_price |-> [num |-> buy_price, den |-> 1]]},
                       !.next_id = @ + 1]

\* _buy_bond(stock_code, amount): what it did and the table afterwards.
\* database: the ledger write works, raises (caught and logged by the inner
\* try) or there is no database object.
buy_bond_priced(t, stock_code, amount, ensure_ok, price, order_id, database) ==
    LET volume == buy_volume([num |-> amount, den |-> 1], price)
        outcome == IF ~ensure_ok THEN "ensure_failed"
                   ELSE IF price <= 0 THEN "no_price"
                   ELSE IF volume < LotSize THEN "no_volume"
                   ELSE IF ~order_accepted(order_id) THEN "rejected"
                   ELSE IF database = "none" THEN "bought_unrecorded"
                   ELSE IF database = "raises" THEN "bought_save_failed"
                   ELSE "bought"
        saved == IF outcome = "bought"
                 THEN add_position_record_priced(t, stock_code, volume, price)
                 ELSE t
    IN  [saved EXCEPT
            !.calls = <<[stock_code |-> stock_code,
                         volume |-> IF price > 0 THEN volume ELSE 0,
                         price |-> price, order_id |-> order_id,
                         database |-> database, outcome |-> outcome,
                         before |-> t.rows]>>]

\* Database.__init__ on an empty file: no row; no buy has been made.
InitBuyPrice ==
    /\ notSchInit
    /\ sch = SchedulerInit

\* One _buy_bond call.
PricedBuy ==
    /\ \E stock_code \in Codes, amount \in PricedAmounts, ensure_ok \in BOOLEAN, price \in PricedPrices, order_id \in OrderIds, database \in DatabaseReplies :
        /\ tx' = buy_bond_priced(tx, stock_code, amount, ensure_ok, price, order_id, database)
        /\ \A r \in tx'.rows : r.volume <= MaxPricedVolume
    /\ UNCHANGED notTx

NextBuyPrice ==
    \/ PricedBuy

SpecBuyPrice == InitBuyPrice /\ [][NextBuyPrice]_vars

\* The last call and the row of its code before and after it.
LastBuy == tx.calls[1]
RowBefore == first_row(LastBuy.before, LastBuy.stock_code)
RowAfter == first_row(tx.rows, LastBuy.stock_code)

\* After the last call the ledger has one row for its code, with the volume
\* before plus the volume bought and the volume-weighted average of the
\* price before and the price bought (as a fraction, cross-multiplied).
UpsertedWeighted ==
    /\ Cardinality(RowsOf(tx.rows, LastBuy.stock_code)) = 1
    /\ RowAfter.volume = RowBefore.volume + LastBuy.volume
    /\ RowAfter.buy_price.num * RowBefore.buy_price.den *
           (RowBefore.volume + LastBuy.volume) =
       (RowBefore.volume * RowBefore.buy_price.num +
            LastBuy.volume * LastBuy.price * RowBefore.buy_price.den) *
           RowAfter.buy_price.den
    /\ \A r \in tx.rows : r.stock_code # LastBuy.stock_code =>
           r \in LastBuy.before

notDouble == <<db_call, ec, sp, df, api, clock, rcg, now, gh, pk, tr, gt, tx, bq, hl, sch, dc>>

RECURSIVE queue_of(_, _)
\* The queue rows the risk check of the day wrote for the codes it sold.
queue_of(sold, t) ==
    IF sold = {} THEN <<>>
    ELSE LET c == CHOOSE x \in sold : \A y \in sold : x <= y
         IN  <<[date |-> t.date, stock_code |-> c]>> \o queue_of(sold \ {c}, t)

\* execute_scheduled_refill steps 1-8: why it returns before step 9.
\* targets_raise, positions_raise: get_today_bonds / get_positions raise
\* and the except clause of the routine logs and notifies.
scheduled_refill_stop(queue_today, targets_raise, target_bonds, positions_raise, buys) ==
    IF queue_today = <<>> THEN "queue_empty"
    ELSE IF targets_raise THEN "raised"
    ELSE IF target_bonds = <<>> THEN "no_targets"
    ELSE IF positions_raise THEN "raised"
    ELSE IF buys = <<>> THEN "no_candidates"
    ELSE "none"

\* A step 9 that goes on whatever the amount.
refill_amount_stop_never(amount) == "none"

\* Step 9: "if buy_amount <= 0: return".
refill_amount_stop(amount) ==
    IF amount.num <= 0 THEN "no_amount" ELSE "none"

\* What get_positions returns for the codes held.
PositionsOf(held) == [c \in held |-> LotSize]

InitDouble ==
    /\ notSchInit
    /\ sch = SchedulerInit

\* The day up to 14:50: trading runs, the target list is known, some codes
\* are held, the risk check has sold others and queued them for refill, and
\* a row of the day before may still be stored.
DoubleDay ==
    /\ th = ThreadsInit
    /\ \E target_bonds \in TargetLists \ {<<>>}, held \in SUBSET Codes, sold \in SUBSET Codes, stale \in BOOLEAN :
        /\ held \cap sold = {}
        /\ th' = [targets |-> target_bonds, held |-> held, pending |-> {},
                  orders |-> {}, started |-> {}, queue_read |-> <<>>,
                  refill_stop |-> "none"]
        /\ refill_queue' =
               (IF stale THEN <<[date |-> now.date - 1, stock_code |-> 1]>>
                ELSE <<>>) \o queue_of(sold, now)
    /\ cfg' \in Configs \ {CfgNone}
    /\ qmt' = qmt_connect(QmtInit, "ok")
    /\ UNCHANGED <<position_records, cy, rf, notDouble>>

\* The rebalance job fires: execute_rebalance up to step 4.
DoubleRebalanceStart ==
    /\ th # ThreadsInit
    /\ "rebalance" \notin th.started
    /\ cy' = rebalance_start(position_records, cfg, qmt, <<"asset", "asset">>,
                             th.targets, PositionsOf(th.held)).cy
    /\ th' = [th EXCEPT !.started = @ \cup {"rebalance"}]
    /\ UNCHANGED <<position_records, qmt, cfg, refill_queue, rf, notDouble>>

\* execute_rebalance step 6.
DoubleRebalanceAmount ==
    /\ cy.pc = "amount"
    /\ \E cash \in CashReplies :
        cy' = IF cy.to_buy = {} THEN CycleIdle
              ELSE [cy EXCEPT !.pc = "buy",
                              !.buy_amount = calculate_buy_amount(
                                  cfg, Cardinality(cy.to_buy),
                                  is_connected(qmt), cash)]
    /\ UNCHANGED <<position_records, qmt, cfg, refill_queue, rf, th, notDouble>>

\* The buy order of a _buy_bond call, if it placed one, enters the orders;
\* an accepted one waits to be filled.
AfterBuy(r, stock_code) ==
    [th EXCEPT !.orders = IF r.order # NoOrder
                          THEN @ \cup {[by |-> r.order.by,
                                        stock_code |-> stock_code]}
                          ELSE @,
               !.pending = IF r.outcome = "bought" THEN @ \cup {stock_code}
                           ELSE @]

\* execute_rebalance step 7, one round.
DoubleRebalanceBuy ==
    /\ cy.pc = "buy"
    /\ \E stock_code \in cy.to_buy, price \in BuyPrices, accepted \in BOOLEAN :
        LET r == buy_bond(position_records, "rebalance", cy.ensured, stock_code, cy.buy_amount, TRUE, price, accepted)
            rest == cy.to_buy \ {stock_code}
        IN  /\ position_records' = r.position_records
            /\ th' = AfterBuy(r, stock_code)
            /\ cy' = IF rest = {} THEN CycleIdle
                     ELSE [cy EXCEPT !.to_buy = rest]
    /\ UNCHANGED <<qmt, cfg, refill_queue, rf, notDouble>>

\* The refill job fires: execute_scheduled_refill up to step 8.
DoubleRefillStart ==
    /\ th # ThreadsInit
    /\ "refill" \notin th.started
    /\ \E target_bonds \in {th.targets, <<>>}, targets_raise \in BOOLEAN, positions_raise \in BOOLEAN :
        LET queue_today == get_refill_queue(refill_queue, now.date)
            buys == refill_to_buy(target_bonds, th.held, queue_today)
            stop == scheduled_refill_stop(queue_today, targets_raise, target_bonds, positions_raise, buys)
        IN  /\ rf' = IF stop # "none" THEN RefillIdle
                      ELSE [RefillIdle EXCEPT !.pc = "amount",
                                              !.to_buy = buys,
                                              !.ensured = TRUE]
            /\ th' = [th EXCEPT !.started = @ \cup {"refill"},
                                !.queue_read = queue_today,
                                !.refill_stop = stop]
    /\ UNCHANGED <<position_records, qmt, cfg, refill_queue, cy, notDouble>>

\* execute_scheduled_refill step 9.
DoubleRefillAmount ==
    /\ rf.pc = "amount"
    /\ \E cash \in CashReplies :
        LET amount == calculate_buy_amount(cfg, Len(rf.to_buy),
                                           is_connected(qmt), cash)
            stop == refill_amount_stop(amount)
        IN  /\ rf' = IF stop # "none" THEN RefillIdle
                      ELSE [rf EXCEPT !.pc = "buy", !.buy_amount = amount]
            /\ th' = [th EXCEPT !.refill_stop = stop]
    /\ UNCHANGED <<position_records, qmt, cfg, refill_queue, cy, notDouble>>

\* execute_scheduled_refill step 10, one round.
DoubleRefillBuy ==
    /\ rf.pc = "buy"
    /\ \E price \in BuyPrices, accepted \in BOOLEAN :
        LET r == buy_bond(position_records, "refill", rf.ensured, Head(rf.to_buy), rf.buy_amount, TRUE, price, accepted)
            rest == Tail(rf.to_buy)
        IN  /\ position_records' = r.position_records
            /\ th' = AfterBuy(r, Head(rf.to_buy))
            /\ rf' = [rf EXCEPT !.to_buy = rest,
                                !.pc = IF rest = <<>> THEN "clear" ELSE "buy"]
    /\ UNCHANGED <<qmt, cfg, refill_queue, cy, notDouble>>

\* execute_scheduled_refill step 11.
DoubleRefillClear ==
    /\ rf.pc = "clear"
    /\ refill_queue' = clear_refill_queue(refill_queue, now.date)
    /\ rf' = RefillIdle
    /\ UNCHANGED <<position_records, qmt, cfg, cy, th, notDouble>>

\* The broker fills an accepted buy order: the code is held from now on.
DoubleFill ==
    /\ th # ThreadsInit
    /\ \E stock_code \in th.pending :
        th' = [th EXCEPT !.held = @ \cup {stock_code},
                         !.pending = @ \ {stock_code}]
    /\ UNCHANGED <<position_records, qmt, cfg, refill_queue, cy, rf, notDouble>>

NextDouble ==
    \/ DoubleDay
    \/ DoubleRebalanceStart
    \/ DoubleRebalanceAmount
    \/ DoubleRebalanceBuy
    \/ DoubleRefillStart
    \/ DoubleRefillAmount
    \/ DoubleRefillBuy
    \/ DoubleRefillClear
    \/ DoubleFill

SpecDouble == InitDouble /\ [][NextDouble]_vars

\* C36: no code has a buy order of the rebalance and a buy order of the
\* refill of the same firing.
C36_NoCodeBoughtByBoth ==
    th # ThreadsInit =>
        \A c \in Codes :
            ~({[by |-> "rebalance", stock_code |-> c],
               [by |-> "refill", stock_code |-> c]} \subseteq th.orders)

(***************************************************************************)
(* A health-check callback in flight while stop_trading runs.  The         *)
(* scheduler is shut down with wait=False, so a callback that has started  *)
(* goes on step by step: the test of _running, the health probe, the       *)
(* counting, disconnect, the two-second sleep, connect, the validation.    *)
(* hl.pc is the step the callback in flight is at; stop_trading and        *)
(* start_trading run between any two steps.                                *)
(***************************************************************************)
notRace == <<position_records, db_call, ec, sp, df, rcg, cfg, now, refill_queue, cy, rf, gh, pk, tr, gt, th, tx, bq, sch, dc>>

\* Where the callback in flight is; no callback runs before the first fire.
RacePc == IF hl = HealthInit THEN "idle" ELSE hl.pc
RaceAt(pc) == [pc |-> pc]

InitRace ==
    /\ notSchInit
    /\ sch = SchedulerInit

\* The health-check job fires while the scheduler runs:
\* _qmt_health_check_callback tests _running, records the time and probes.
RaceEnter ==
    /\ RacePc = "idle"
    /\ api.running
    /\ clock < MaxTicks
    /\ clock' = clock + 1
    /\ LET a1 == [api EXCEPT
                     !.qmt_last_health_check_time = clock' * HealthInterval]
       IN  IF ~health_check_simple(qmt)
           THEN api' = a1 /\ hl' = RaceAt("reconnect")
           ELSE /\ api' = [a1 EXCEPT !.qmt_reconnect_count = 0]
                /\ hl' = RaceAt("idle")
    /\ UNCHANGED <<qmt, notRace>>

\* _reconnect_qmt: the limit test, the cooldown test, then the timestamp and
\* the counter.
RaceCount ==
    /\ RacePc = "reconnect"
    /\ LET t == clock * HealthInterval
       IN  IF api.qmt_reconnect_count >= MaxReconnectAttempts
           THEN api' = api /\ hl' = RaceAt("idle")
           ELSE IF /\ api.qmt_last_reconnect_time # None
                   /\ t - api.qmt_last_reconnect_time < ReconnectCooldown
           THEN api' = api /\ hl' = RaceAt("idle")
           ELSE /\ api' = [api EXCEPT !.qmt_last_reconnect_time = t,
                                      !.qmt_reconnect_count = @ + 1]
                /\ hl' = RaceAt("disconnect")
    /\ UNCHANGED <<qmt, clock, notRace>>

\* _reconnect_qmt: the stored configuration is read, the old session is
\* disconnected, and the thread sleeps two seconds.
RaceDisconnect ==
    /\ RacePc = "disconnect"
    /\ \E config_ok \in BOOLEAN :
        IF ~config_ok
        THEN qmt' = qmt /\ hl' = RaceAt("idle")
        ELSE qmt' = qmt_disconnect(qmt) /\ hl' = RaceAt("connect")
    /\ UNCHANGED <<api, clock, notRace>>

\* _reconnect_qmt after the sleep: qmt.connect.
RaceConnect ==
    /\ RacePc = "connect"
    /\ \E outcome \in ConnectOutcomes :
        qmt' = qmt_connect(qmt, outcome)
    /\ hl' = RaceAt("validate")
    /\ UNCHANGED <<api, clock, notRace>>

\* _reconnect_qmt: is_connected() and health_check(); the counter is reset
\* when both hold, otherwise the except clause logs.
RaceValidate ==
    /\ RacePc = "validate"
    /\ \E reply \in AssetReplies :
        api' = IF is_connected(qmt) /\ health_check(qmt, reply)
               THEN [api EXCEPT !.qmt_reconnect_count = 0]
               ELSE api
    /\ hl' = RaceAt("idle")
    /\ UNCHANGED <<qmt, clock, notRace>>

NextRace ==
    \/ StartTrading
    \/ StopTrading
    \/ SessionDrops
    \/ RaceEnter
    \/ RaceCount
    \/ RaceDisconnect
    \/ RaceConnect
    \/ RaceValidate

SpecRace == InitRace /\ [][NextRace]_vars

\* C37: while trading is stopped the session is disconnected and the
\* reconnect counter is zero.
C37_StoppedStaysDisconnected ==
    ~api.running =>
        /\ ~is_connected(qmt)
        /\ api.qmt_reconnect_count = 0

\* The reasons execute_scheduled_refill returns for, having found rows of
\* today in the queue, before its buy loop.
RefillStops == {"raised", "no_targets", "no_candidates", "no_amount"}
RefillOrders == {o \in th.orders : o.by = "refill"}

\* C38: a refill that found rows of today and returned before its buy loop
\* has placed no buy order and the rows of today are the rows it read; the
\* stored queue changes only in step 11, which a refill reaches only with
\* an amount above zero.
C38_EarlyStopKeepsQueue ==
    /\ []((th # ThreadsInit /\ th.refill_stop \in RefillStops) =>
             /\ th.queue_read # <<>>
             /\ RefillOrders = {}
             /\ rf.pc = "idle"
             /\ get_refill_queue(refill_queue, now.date) = th.queue_read)
    /\ [][(th # ThreadsInit /\ refill_queue' # refill_queue) =>
             /\ rf.pc = "clear"
             /\ th.refill_stop = "none"
             /\ rf.buy_amount.num > 0]_vars

\* C38 witness: the refill found a queued code, computed an amount of zero
\* and returned, while the rebalance of the same minute placed an order; a
\* row of the day before is still stored.
C38_Witness ==
    /\ th # ThreadsInit
    /\ th.refill_stop = "no_amount"
    /\ th.queue_read # <<>>
    /\ th.orders # {}
    /\ Len(refill_queue) > Len(th.queue_read)
    /\ get_refill_queue(refill_queue, now.date) = th.queue_read

====
